---- MODULE Spec2Model ----
(***************************************************************************)
(* Model of the async-tcp example application: the QuoteBuffer (a string   *)
(* plus a completion flag behind a synchronous bridge bound to core 1),    *)
(* the QOTD receive handlers that fill it from core 0, and the main loop   *)
(* that polls it.                                                          *)
(*                                                                         *)
(* Strings are sequences of character codes.                               *)
(***************************************************************************)
EXTENDS Integers, Sequences, FiniteSets, TLC

VARIABLES
    m_buffer,          \* QuoteBuffer::m_buffer
    m_quote_complete,  \* QuoteBuffer::m_quote_complete
    busy,              \* the bridge's single-slot guard (a call is in progress)
    queue,             \* synchronous work queued on the owning core's run loop
    pc,                \* per calling core: "idle", "waiting" (blocked), "served"
    req,               \* per calling core: the payload of its call in progress
    ret,               \* per calling core: what its last wrapper call returned
    issued,            \* number of wrapper calls issued so far (ticket counter)
    hist,              \* history: the payloads executed by onExecute, in order
    conn,              \* QOTD client: "idle", "connecting", "open", "fin"
    sent,              \* bytes the transport has delivered on this connection
    segs,              \* segments delivered on this connection
    rxPending,         \* IoRxBuffer: bytes delivered and not yet consumed
    evq,               \* notifications queued on core 0's run loop, in firing order
    opts,              \* socket options of the QOTD client
    printQ,            \* one-shot print handlers scheduled and not yet run
    lastWork,          \* history: what the last handler callback saw and did
    taken,             \* history: the chunks data notifications took on this connection
    clean,             \* history: no buffer call of a handler was rejected on it
    frames,            \* callbacks in progress on core 0, innermost last
    runq0,             \* persistent handlers with an invocation pending on core 0
    fired,             \* number of firings so far
    m_len,             \* TcpAckHandler::m_len
    ackFired,          \* history: the lengths carried by the ACK firings, in order
    ackDelivered,      \* history: the lengths handed to onAckReceived, in order
    heap,              \* the workload objects allocated for ACK firings
    m_rx_buffer,       \* QotdReceivedHandler / QotdFinHandler ::m_rx_buffer
    created,           \* number of PrintHandler::create calls so far
    live,              \* one-shot print handlers alive
    printers,          \* one-shot print handlers scheduled on core 1, in order
    completed,         \* number of print callbacks that have returned
    operational,       \* main.cpp: set at the end of setup()
    ctx1_ready,        \* main.cpp: set at the end of setup1()
    cpc,               \* per core: "setup", "panic" or "loop"
    loopFn,            \* the function of loop() waiting in qotd_buffer.get()
    echoConn,          \* echo client: "idle", "connecting", "open"
    lastEcho,          \* history: whether the last get_echo() that read the buffer sent it
    print_lock,        \* SerialPrinter::print_lock
    prAt,              \* per caller of print(): its position in the call
    hnd,               \* the PrintHandler objects created so far
    running,           \* the print handler whose callback core 1 is running
    serial,            \* history: the lines written to Serial1, in order
    printLog,          \* history: the print() calls that returned
    ioAt,              \* per core: its position in IoWrite::write
    ioBusy,            \* the guard of the IoWrite bridge
    ioQueue,           \* write payloads queued on the run loop of IoWrite's core
    ioHeap,            \* the WritePayload objects allocated so far
    ioLog,             \* history: the IoWrite::write calls that returned
    m_qotd_in_progress, \* the flag QotdClosedHandler refers to
    drain,             \* the drain loop of QotdFinHandler::onWork, step by step
    poll,              \* the client a TcpPollHandler refers to, and its writer
    echo,              \* the echo client's receive path and EchoReceivedHandler
    loop_tasks,        \* LoopScheduler::loop_tasks
    schedLog           \* history: the LoopScheduler calls made, in order

bufVars  == <<m_buffer, m_quote_complete, busy, queue, pc, req, ret>>
qotdVars == <<conn, sent, segs, rxPending, evq, opts, printQ, lastWork, taken, clean>>
evVars   == <<frames, runq0, fired, m_len, ackFired, ackDelivered, heap, m_rx_buffer,
              created, live, printers, completed>>
mainVars == <<operational, ctx1_ready, cpc, loopFn, echoConn, lastEcho>>
prVars   == <<print_lock, prAt, hnd, running, serial, printLog>>
ioVars   == <<ioAt, ioBusy, ioQueue, ioHeap, ioLog>>
auxVars  == <<drain, poll, echo, loop_tasks, schedLog>>
extVars  == <<mainVars, prVars, ioVars, m_qotd_in_progress, auxVars>>
vars     == <<m_buffer, m_quote_complete, busy, queue, pc, req, ret, issued, hist,
              conn, sent, segs, rxPending, evq, opts, printQ, lastWork, taken, clean,
              frames, runq0, fired, m_len, ackFired, ackDelivered, heap, m_rx_buffer,
              created, live, printers, completed,
              operational, ctx1_ready, cpc, loopFn, echoConn, lastEcho,
              print_lock, prAt, hnd, running, serial, printLog,
              ioAt, ioBusy, ioQueue, ioHeap, ioLog, m_qotd_in_progress,
              drain, poll, echo, loop_tasks, schedLog>>

(***************************************************************************)
(* Bounds of the model.                                                    *)
(***************************************************************************)
MaxCalls  == 3   \* wrapper calls issued in one run of the buffer specification
MaxSegs   == 3   \* segments the server's quote is split into
MaxStream == 180 \* length of the longest quote the server sends
MaxPrintQ == 1   \* print handlers that may be scheduled and not yet run
MaxFirings == 3  \* firings of persistent handlers in one run of the event specification
MaxCreates == 2  \* PrintHandler::create calls in one run of the event specification

(***************************************************************************)
(* Program constants.                                                      *)
(***************************************************************************)
OWNER_CORE == 1                       \* qotd_buffer(ctx1)
OTHER_CORE == 0                       \* loop() and the ctx0 handlers
CHAR_0 == 48                          \* '0'
CHAR_1 == 49                          \* '1'
PARTIAL_CONSUMPTION_THRESHOLD == 88   \* QotdReceivedHandler::onWork
QOTD_PARTIAL_CONSUMPTION_THRESHOLD == 10  \* QotdConfig.hpp, used by QotdFinHandler

Cores == {OTHER_CORE, OWNER_CORE}

Min(a, b) == IF a <= b THEN a ELSE b

(***************************************************************************)
(* QuoteBuffer: payloads, onExecute and the public wrappers.               *)
(***************************************************************************)
Wrappers == {"set", "get", "append", "empty", "clear", "setComplete",
             "isComplete", "resetBuffer"}

\* The strings the callers of the buffer specification pass to set / append.
DataSet == {<<65>>, <<66, 67>>}

\* What a wrapper's argument can be: set and append take a string.
ArgsOf(w) == IF w \in {"set", "append"} THEN DataSet ELSE {<<>>}

\* The BufferPayload each wrapper builds. result_ptr is set by get, empty and
\* isComplete; clear is a SET of the empty string; empty is a GET.
PayloadOf(w, d) ==
    CASE w = "set"         -> [op |-> "SET",            data |-> d,    hasResult |-> FALSE]
      [] w = "get"         -> [op |-> "GET",            data |-> <<>>, hasResult |-> TRUE]
      [] w = "append"      -> [op |-> "APPEND",         data |-> d,    hasResult |-> FALSE]
      [] w = "empty"       -> [op |-> "GET",            data |-> <<>>, hasResult |-> TRUE]
      [] w = "clear"       -> [op |-> "SET",            data |-> <<>>, hasResult |-> FALSE]
      [] w = "setComplete" -> [op |-> "SET_COMPLETE",   data |-> <<>>, hasResult |-> FALSE]
      [] w = "isComplete"  -> [op |-> "IS_COMPLETE",    data |-> <<>>, hasResult |-> TRUE]
      [] w = "resetBuffer" -> [op |-> "RESET_COMPLETE", data |-> <<>>, hasResult |-> FALSE]

Res(buf, cpl, result, status) ==
    [buffer |-> buf, complete |-> cpl, result |-> result, status |-> status]

\* case BufferPayload::SET: a SET that appends instead of replacing.
OnSetAppends(p, buf, cpl) == Res(buf \o p.data, cpl, <<>>, "PICO_OK")

\* case BufferPayload::SET: a SET that also clears the completion flag.
OnSetClearsFlag(p, buf, cpl) == Res(p.data, FALSE, <<>>, "PICO_OK")

\* case BufferPayload::SET: m_buffer = data.
OnSet(p, buf, cpl) == Res(p.data, cpl, <<>>, "PICO_OK")

\* case BufferPayload::APPEND: a torn append, only the first character is written.
OnAppendTorn(p, buf, cpl) ==
    Res(buf \o SubSeq(p.data, 1, Min(1, Len(p.data))), cpl, <<>>, "PICO_OK")

\* case BufferPayload::APPEND: m_buffer += data.
OnAppend(p, buf, cpl) == Res(buf \o p.data, cpl, <<>>, "PICO_OK")

\* case BufferPayload::SET_COMPLETE: m_quote_complete = true.
OnSetComplete(p, buf, cpl) == Res(buf, TRUE, <<>>, "PICO_OK")

\* case BufferPayload::RESET_COMPLETE: a reset that forgets to clear the buffer.
OnResetKeepsBuffer(p, buf, cpl) == Res(buf, FALSE, <<>>, "PICO_OK")

\* case BufferPayload::RESET_COMPLETE: m_quote_complete = false; m_buffer.clear().
OnResetComplete(p, buf, cpl) == Res(<<>>, FALSE, <<>>, "PICO_OK")

\* case BufferPayload::IS_COMPLETE: "1" or "0" through result_ptr, when it is set.
OnIsComplete(p, buf, cpl) ==
    Res(buf, cpl,
        IF p.hasResult THEN (IF cpl THEN <<CHAR_1>> ELSE <<CHAR_0>>) ELSE <<>>,
        "PICO_OK")

\* case BufferPayload::GET: a copy of m_buffer through result_ptr; without a
\* result_ptr the status is PICO_ERROR_NO_DATA.
OnGet(p, buf, cpl) ==
    Res(buf, cpl,
        IF p.hasResult THEN buf ELSE <<>>,
        IF p.hasResult THEN "PICO_OK" ELSE "PICO_ERROR_NO_DATA")

\* QuoteBuffer::onExecute: the new buffer and flag, the string written through
\* result_ptr (empty when nothing is written) and the status returned.
OnExecute(p, buf, cpl) ==
    CASE p.op = "SET"            -> OnSet(p, buf, cpl)
      [] p.op = "APPEND"         -> OnAppend(p, buf, cpl)
      [] p.op = "SET_COMPLETE"   -> OnSetComplete(p, buf, cpl)
      [] p.op = "RESET_COMPLETE" -> OnResetComplete(p, buf, cpl)
      [] p.op = "IS_COMPLETE"    -> OnIsComplete(p, buf, cpl)
      [] p.op = "GET"            -> OnGet(p, buf, cpl)
      [] OTHER -> Res(buf, cpl, <<>>, "PICO_ERROR_INVALID_ARG")

\* What a wrapper hands back to its caller, given execute's status and the
\* result_string the payload pointed to: get returns the string, empty returns
\* result_string.empty(), isComplete returns false on error and otherwise
\* result_string == "1"; the other wrappers return nothing.
WrapperReturn(w, status, result) ==
    [w      |-> w,
     status |-> status,
     str    |-> IF w = "get" THEN result ELSE <<>>,
     bool   |-> CASE w = "empty"      -> (result = <<>>)
                  [] w = "isComplete" -> (status = "PICO_OK" /\ result = <<CHAR_1>>)
                  [] OTHER            -> FALSE,
     at     |-> 0,
     ticket |-> 0]

NoPayload == [op |-> "NONE", data |-> <<>>, hasResult |-> FALSE,
              w |-> "none", result |-> <<>>, status |-> "NONE", at |-> 0, ticket |-> 0]
NoReturn  == [w |-> "none", status |-> "NONE", str |-> <<>>, bool |-> FALSE,
              at |-> 0, ticket |-> 0]

(***************************************************************************)
(* The synchronous bridge (SyncBridge::execute), as the buffer's wrappers   *)
(* use it: a call made while another call on the bridge is in progress is   *)
(* rejected with PICO_ERROR_RESOURCE_IN_USE; a call from the owning core    *)
(* runs onExecute inline; a call from the other core is queued on the       *)
(* owning core's run loop and blocks its caller until onExecute has run.    *)
(* `track` says whether the history variables record the call.              *)
(***************************************************************************)
Call(c, w, d, t) ==
    [op |-> PayloadOf(w, d).op, data |-> PayloadOf(w, d).data,
     hasResult |-> PayloadOf(w, d).hasResult,
     w |-> w, result |-> <<>>, status |-> "NONE", at |-> 0, ticket |-> t]

\* One run of onExecute: k is the core it ran on, c the core that called.
HistEntry(k, c, p, r) ==
    [core |-> k, caller |-> c, ticket |-> p.ticket, w |-> p.w, data |-> p.data,
     result |-> r.result]

\* execute: a rejected call that runs onExecute on the calling core all the same.
ExecuteRejectedApplies(c, w, d, t) ==
    /\ busy
    /\ LET r == OnExecute(Call(c, w, d, t), m_buffer, m_quote_complete)
       IN /\ m_buffer' = r.buffer
          /\ m_quote_complete' = r.complete
    /\ ret' = [ret EXCEPT ![c] =
                 [WrapperReturn(w, "PICO_ERROR_RESOURCE_IN_USE", <<>>) EXCEPT !.ticket = t]]
    /\ UNCHANGED <<busy, queue, pc, req, hist>>

\* execute: the guard is taken, the call is rejected at once.  The caller is the
\* owning core, or code that interrupted the other core inside its own call.
ExecuteRejected(c, w, d, t) ==
    /\ busy
    /\ ret' = [ret EXCEPT ![c] =
                 [WrapperReturn(w, "PICO_ERROR_RESOURCE_IN_USE", <<>>) EXCEPT !.ticket = t]]
    /\ UNCHANGED <<m_buffer, m_quote_complete, busy, queue, pc, req, hist>>

\* execute: a failed submission after which the operation is run on the spot.
ExecuteSubmitFailsRetries(c, w, d, t) ==
    /\ pc[c] = "idle"
    /\ ~busy
    /\ c # OWNER_CORE
    /\ LET r == OnExecute(Call(c, w, d, t), m_buffer, m_quote_complete)
       IN /\ m_buffer' = r.buffer
          /\ m_quote_complete' = r.complete
    /\ ret' = [ret EXCEPT ![c] =
                 [WrapperReturn(w, "PICO_ERROR_GENERIC", <<>>) EXCEPT !.ticket = t]]
    /\ UNCHANGED <<busy, queue, pc, req, hist>>

\* execute: the guard was free but the run loop does not accept the work.
ExecuteSubmitFails(c, w, d, t) ==
    /\ pc[c] = "idle"
    /\ ~busy
    /\ c # OWNER_CORE
    /\ ret' = [ret EXCEPT ![c] =
                 [WrapperReturn(w, "PICO_ERROR_GENERIC", <<>>) EXCEPT !.ticket = t]]
    /\ UNCHANGED <<m_buffer, m_quote_complete, busy, queue, pc, req, hist>>

\* execute from the owning core that queues the payload on its own run loop and
\* waits for it.
ExecuteInlineQueues(c, w, d, t, track) ==
    /\ pc[c] = "idle"
    /\ ~busy
    /\ c = OWNER_CORE
    /\ busy' = TRUE
    /\ queue' = Append(queue, c)
    /\ pc' = [pc EXCEPT ![c] = "waiting"]
    /\ req' = [req EXCEPT ![c] = Call(c, w, d, t)]
    /\ UNCHANGED <<m_buffer, m_quote_complete, ret, hist>>

\* execute from the owning core: onExecute runs inline.
ExecuteInline(c, w, d, t, track) ==
    /\ pc[c] = "idle"
    /\ ~busy
    /\ c = OWNER_CORE
    /\ LET p == Call(c, w, d, t)
           r == OnExecute(p, m_buffer, m_quote_complete)
           n == IF track THEN Len(hist) + 1 ELSE 0
       IN /\ m_buffer' = r.buffer
          /\ m_quote_complete' = r.complete
          /\ hist' = IF track THEN Append(hist, HistEntry(c, c, p, r)) ELSE hist
          /\ ret' = [ret EXCEPT ![c] =
                       [WrapperReturn(w, r.status, r.result) EXCEPT !.ticket = t, !.at = n]]
    /\ UNCHANGED <<busy, queue, pc, req>>

\* execute from the other core that runs onExecute on the calling core.
ExecuteSubmitRunsOnCaller(c, w, d, t) ==
    /\ pc[c] = "idle"
    /\ ~busy
    /\ c # OWNER_CORE
    /\ LET p == Call(c, w, d, t)
           r == OnExecute(p, m_buffer, m_quote_complete)
       IN /\ m_buffer' = r.buffer
          /\ m_quote_complete' = r.complete
          /\ hist' = Append(hist, HistEntry(c, c, p, r))
          /\ ret' = [ret EXCEPT ![c] =
                       [WrapperReturn(w, r.status, r.result)
                          EXCEPT !.ticket = t, !.at = Len(hist) + 1]]
    /\ UNCHANGED <<busy, queue, pc, req>>

\* execute from the other core: take the guard, queue the payload, block.
ExecuteSubmit(c, w, d, t) ==
    /\ pc[c] = "idle"
    /\ ~busy
    /\ c # OWNER_CORE
    /\ busy' = TRUE
    /\ queue' = Append(queue, c)
    /\ pc' = [pc EXCEPT ![c] = "waiting"]
    /\ req' = [req EXCEPT ![c] = Call(c, w, d, t)]
    /\ UNCHANGED <<m_buffer, m_quote_complete, ret, hist>>

\* The owning core's run loop takes the next payload and runs onExecute on it.
RunLoopServes(track) ==
    /\ queue # <<>>
    /\ pc[OWNER_CORE] = "idle"
    /\ LET c == Head(queue)
           r == OnExecute(req[c], m_buffer, m_quote_complete)
           n == IF track THEN Len(hist) + 1 ELSE 0
       IN /\ m_buffer' = r.buffer
          /\ m_quote_complete' = r.complete
          /\ req' = [req EXCEPT ![c].result = r.result, ![c].status = r.status, ![c].at = n]
          /\ pc' = [pc EXCEPT ![c] = "served"]
          /\ hist' = IF track THEN Append(hist, HistEntry(OWNER_CORE, c, req[c], r)) ELSE hist
    /\ queue' = Tail(queue)
    /\ UNCHANGED <<busy, ret>>

\* The blocked caller wakes up: the guard is released and the wrapper returns.
ExecuteReturns(c) ==
    /\ pc[c] = "served"
    /\ busy' = FALSE
    /\ pc' = [pc EXCEPT ![c] = "idle"]
    /\ ret' = [ret EXCEPT ![c] =
                 [WrapperReturn(req[c].w, req[c].status, req[c].result)
                    EXCEPT !.ticket = req[c].ticket, !.at = req[c].at]]
    /\ req' = [req EXCEPT ![c] = NoPayload]
    /\ UNCHANGED <<m_buffer, m_quote_complete, queue, hist>>

(***************************************************************************)
(* Specification SpecBuf: code on both cores calls the buffer's wrappers   *)
(* with any arguments, at most MaxCalls calls in all.                      *)
(***************************************************************************)
InitBuffer ==
    /\ m_buffer = <<>>
    /\ m_quote_complete = FALSE
    /\ busy = FALSE
    /\ queue = <<>>
    /\ pc = [c \in Cores |-> "idle"]
    /\ req = [c \in Cores |-> NoPayload]
    /\ ret = [c \in Cores |-> NoReturn]
    /\ issued = 0
    /\ hist = <<>>

NoWork ==
    [h |-> "none", rejected |-> FALSE, avail |-> 0, bufBefore |-> <<>>,
     cplBefore |-> FALSE, pendBefore |-> <<>>, pendAfter |-> <<>>, sent |-> 0,
     k |-> 0, path |-> "none", trace |-> <<>>, iterations |-> 0, clean |-> TRUE]

InitQotd ==
    /\ conn = "idle"
    /\ sent = 0
    /\ segs = 0
    /\ rxPending = <<>>
    /\ evq = <<>>
    /\ opts = [keepAlive |-> FALSE, noDelay |-> FALSE]
    /\ printQ = 0
    /\ lastWork = NoWork
    /\ taken = <<>>
    /\ clean = TRUE

RxHandlers == {"qotd_received", "qotd_fin"}

InitEvents ==
    /\ frames = <<>>
    /\ runq0 = <<>>
    /\ fired = 0
    /\ m_len = 0
    /\ ackFired = <<>>
    /\ ackDelivered = <<>>
    /\ heap = <<>>
    /\ m_rx_buffer = [h \in RxHandlers |-> 0]
    /\ created = 0
    /\ live = {}
    /\ printers = <<>>
    /\ completed = 0

\* No get_echo() has run.
NoEcho == [did |-> "none"]

\* Both cores have left setup() / setup1(): the state the loops start in.
InitStarted ==
    /\ operational = TRUE
    /\ ctx1_ready = TRUE
    /\ cpc = [c \in Cores |-> "loop"]

InitMain ==
    /\ loopFn = "none"
    /\ echoConn = "idle"
    /\ lastEcho = NoEcho

PrintCallers == {"loop", "handler", "loop1"}

NoPrint == [step |-> 0, ticket |-> 0, id |-> 0, text |-> <<>>]

InitPrint ==
    /\ print_lock = FALSE
    /\ prAt = [k \in PrintCallers |-> NoPrint]
    /\ hnd = <<>>
    /\ running = 0
    /\ serial = <<>>
    /\ printLog = <<>>

NoWrite == [step |-> "idle", handle |-> 0, pid |-> 0, status |-> "NONE"]

InitIo ==
    /\ ioAt = [c \in Cores |-> NoWrite]
    /\ ioBusy = FALSE
    /\ ioQueue = <<>>
    /\ ioHeap = <<>>
    /\ ioLog = <<>>

\* No drain in progress.
NoDrain == [at |-> "idle", T |-> 0, n |-> 0, available |-> 0, rej |-> FALSE, steps |-> <<>>]

\* A client without a writer; no poll callback has run.
NoPoll == [writer |-> FALSE, hasTimedOut |-> FALSE, polls |-> 0, timeouts |-> 0,
           last |-> "none"]

\* Nothing received from the echo server.
NoEchoRx == [pending |-> <<>>, sent |-> 0, consumed |-> 0, at |-> "idle",
             available |-> 0, callbacks |-> 0]

InitAux ==
    /\ drain = NoDrain
    /\ poll = NoPoll
    /\ echo = NoEchoRx
    /\ loop_tasks = <<>>
    /\ schedLog = <<>>

InitRest == InitMain /\ InitPrint /\ InitIo /\ m_qotd_in_progress = TRUE /\ InitAux

Init == InitBuffer /\ InitQotd /\ InitEvents /\ InitStarted /\ InitRest

BufCallRejected ==
    \E c \in Cores, w \in Wrappers : \E d \in ArgsOf(w) :
        /\ issued < MaxCalls
        /\ ExecuteRejected(c, w, d, issued + 1)
        /\ issued' = issued + 1
        /\ UNCHANGED <<qotdVars, evVars>>
        /\ UNCHANGED extVars

BufCallSubmitFails ==
    \E c \in Cores, w \in Wrappers : \E d \in ArgsOf(w) :
        /\ issued < MaxCalls
        /\ ExecuteSubmitFails(c, w, d, issued + 1)
        /\ issued' = issued + 1
        /\ UNCHANGED <<qotdVars, evVars>>
        /\ UNCHANGED extVars

BufCallInline ==
    \E c \in Cores, w \in Wrappers : \E d \in ArgsOf(w) :
        /\ issued < MaxCalls
        /\ ExecuteInline(c, w, d, issued + 1, TRUE)
        /\ issued' = issued + 1
        /\ UNCHANGED <<qotdVars, evVars>>
        /\ UNCHANGED extVars

BufCallSubmit ==
    \E c \in Cores, w \in Wrappers : \E d \in ArgsOf(w) :
        /\ issued < MaxCalls
        /\ ExecuteSubmit(c, w, d, issued + 1)
        /\ issued' = issued + 1
        /\ UNCHANGED <<qotdVars, evVars>>
        /\ UNCHANGED extVars

BufServe == RunLoopServes(TRUE) /\ UNCHANGED <<issued>> /\ UNCHANGED <<qotdVars, evVars>> /\ UNCHANGED extVars

BufReturn == \E c \in Cores : ExecuteReturns(c) /\ UNCHANGED <<issued>> /\ UNCHANGED <<qotdVars, evVars>> /\ UNCHANGED extVars

NextBuf ==
    \/ BufCallRejected
    \/ BufCallSubmitFails
    \/ BufCallInline
    \/ BufCallSubmit
    \/ BufServe
    \/ BufReturn

SpecBuf == Init /\ [][NextBuf]_vars

\* SpecBuf with an owning core whose run loop keeps running and callers that go
\* on once they have been served.
SpecBufLive == SpecBuf /\ WF_vars(BufServe) /\ WF_vars(BufReturn)

(***************************************************************************)
(* The QOTD receive path.  The handlers are registered on ctx0, so their    *)
(* callbacks run on core 0 and reach the buffer (owned by core 1) through   *)
(* the bridge.  A callback that interrupts loop() while loop() is inside a  *)
(* buffer call finds the bridge in use for its whole run: `rej` is the      *)
(* guard as the callback finds it.  Otherwise each of its calls is served   *)
(* by core 1 before the callback goes on, so a callback is one step.        *)
(***************************************************************************)
\* The segment sizes the server's quote arrives in.
SegSizes == {5, 15, 88, 89}

\* The bytes of the quote: the byte at position i has value i.
Bytes(a, b) == [k \in 1..(b - a + 1) |-> a + k - 1]

\* One wrapper call made by a callback: rejected when the bridge is in use,
\* otherwise onExecute runs on the owning core before the call returns.
HandlerCall(w, d, buf, cpl, rej) ==
    IF rej
    THEN [buffer |-> buf, complete |-> cpl,
          ret |-> WrapperReturn(w, "PICO_ERROR_RESOURCE_IN_USE", <<>>)]
    ELSE LET r == OnExecute(PayloadOf(w, d), buf, cpl)
         IN [buffer |-> r.buffer, complete |-> r.complete,
             ret |-> WrapperReturn(w, r.status, r.result)]

\* IoRxBuffer::peekConsume(n): the first n pending bytes are dropped.
PeekConsume(pend, n) == SubSeq(pend, n + 1, Len(pend))

\* A firing of a perpetual handler: at most one invocation is pending.
Notify(q, h) == IF \E i \in 1..Len(q) : q[i] = h THEN q ELSE Append(q, h)

WorkResult(buf, cpl, pend, chunk, path, trace, iterations) ==
    [buffer |-> buf, complete |-> cpl, pending |-> pend, chunk |-> chunk,
     path |-> path, trace |-> trace, iterations |-> iterations]

\* QotdReceivedHandler::onWork storing every chunk with set().
ReceivedWorkAlwaysSet(pend, buf, cpl, rej) ==
    LET available == Len(pend)
        consume_size == Min(available, PARTIAL_CONSUMPTION_THRESHOLD)
        quote_chunk == SubSeq(pend, 1, consume_size)
        s == HandlerCall("set", quote_chunk, buf, cpl, rej)
    IN IF available = 0
       THEN WorkResult(buf, cpl, pend, <<>>, "none", <<>>, 0)
       ELSE WorkResult(s.buffer, s.complete, PeekConsume(pend, consume_size),
                       quote_chunk, "set", <<>>, 0)

\* QotdReceivedHandler::onWork consuming everything that is available.
ReceivedWorkConsumesAll(pend, buf, cpl, rej) ==
    LET available == Len(pend)
        consume_size == Min(available, PARTIAL_CONSUMPTION_THRESHOLD)
        quote_chunk == SubSeq(pend, 1, consume_size)
        e == HandlerCall("empty", <<>>, buf, cpl, rej)
        s == HandlerCall("set", quote_chunk, e.buffer, e.complete, rej)
        a == HandlerCall("append", quote_chunk, e.buffer, e.complete, rej)
    IN IF available = 0
       THEN WorkResult(buf, cpl, pend, <<>>, "none", <<>>, 0)
       ELSE IF e.ret.bool
            THEN WorkResult(s.buffer, s.complete, PeekConsume(pend, available),
                            quote_chunk, "set", <<>>, 0)
            ELSE WorkResult(a.buffer, a.complete, PeekConsume(pend, available),
                            quote_chunk, "append", <<>>, 0)

\* QotdReceivedHandler::onWork that marks the quote complete once it has taken
\* everything that was pending.
ReceivedWorkMarksComplete(pend, buf, cpl, rej) ==
    LET available == Len(pend)
        consume_size == Min(available, PARTIAL_CONSUMPTION_THRESHOLD)
        quote_chunk == SubSeq(pend, 1, consume_size)
        e == HandlerCall("empty", <<>>, buf, cpl, rej)
        s == HandlerCall(IF e.ret.bool THEN "set" ELSE "append", quote_chunk,
                         e.buffer, e.complete, rej)
        c == HandlerCall("setComplete", <<>>, s.buffer, s.complete, rej)
        left == PeekConsume(pend, consume_size)
    IN IF available = 0
       THEN WorkResult(buf, cpl, pend, <<>>, "none", <<>>, 0)
       ELSE WorkResult(s.buffer, IF left = <<>> THEN c.complete ELSE s.complete, left,
                       quote_chunk, IF e.ret.bool THEN "set" ELSE "append", <<>>, 0)

\* QotdReceivedHandler::onWork on pending bytes `pend`: nothing when nothing is
\* available; otherwise the first min(available, threshold) bytes are stored,
\* with set() when empty() says the buffer is empty and with append() when not,
\* and consumed from the transport.
ReceivedWork(pend, buf, cpl, rej) ==
    LET available == Len(pend)
        consume_size == Min(available, PARTIAL_CONSUMPTION_THRESHOLD)
        quote_chunk == SubSeq(pend, 1, consume_size)
        e == HandlerCall("empty", <<>>, buf, cpl, rej)
        s == HandlerCall("set", quote_chunk, e.buffer, e.complete, rej)
        a == HandlerCall("append", quote_chunk, e.buffer, e.complete, rej)
    IN IF available = 0
       THEN WorkResult(buf, cpl, pend, <<>>, "none", <<>>, 0)
       ELSE IF e.ret.bool
            THEN WorkResult(s.buffer, s.complete,
                            IF consume_size <= PARTIAL_CONSUMPTION_THRESHOLD
                            THEN PeekConsume(pend, consume_size) ELSE pend,
                            quote_chunk, "set", <<>>, 0)
            ELSE WorkResult(a.buffer, a.complete, PeekConsume(pend, consume_size),
                            quote_chunk, "append", <<>>, 0)

\* An entry of the FIN callback's trace: what it did, and the pending byte count
\* and the completion flag right after.
Event(e, pend, cpl) == [e |-> e, pending |-> Len(pend), complete |-> cpl]

\* The tail of QotdFinHandler::onWork: setComplete(), m_rx_buffer->reset(),
\* m_io.shutdown().
FinComplete(s, rej) ==
    LET c == HandlerCall("setComplete", <<>>, s.buffer, s.complete, rej)
    IN WorkResult(c.buffer, c.complete, <<>>, s.chunk, s.path,
                  s.trace \o <<Event("setComplete", s.pending, c.complete),
                               Event("reset", <<>>, c.complete),
                               Event("shutdown", <<>>, c.complete)>>,
                  s.iterations)

\* One iteration of the drain loop that consumes nothing when append() reports
\* an error, and tries the same bytes again.
DrainIterationRetries(T, available, s, rej) ==
    LET consume_size == Min(available, T)
        quote_chunk == SubSeq(s.pending, 1, consume_size)
        a == HandlerCall("append", quote_chunk, s.buffer, s.complete, rej)
        ok == a.ret.status = "PICO_OK"
    IN [available |-> IF ok THEN available - consume_size ELSE available,
        consume_size |-> IF ok THEN consume_size ELSE 0,
        s |-> WorkResult(a.buffer, a.complete,
                         IF ok THEN PeekConsume(s.pending, consume_size) ELSE s.pending,
                         s.chunk \o (IF ok THEN quote_chunk ELSE <<>>), "drain", s.trace,
                         s.iterations + 1)]

\* One iteration of the drain loop of QotdFinHandler::onWork with threshold T:
\* consume_size = min(available, T); the first consume_size pending bytes are
\* appended and consumed; available = available - consume_size.
DrainIteration(T, available, s, rej) ==
    LET consume_size == Min(available, T)
        quote_chunk == SubSeq(s.pending, 1, consume_size)
        a == HandlerCall("append", quote_chunk, s.buffer, s.complete, rej)
    IN [available |-> available - consume_size,
        consume_size |-> consume_size,
        s |-> WorkResult(a.buffer, a.complete, PeekConsume(s.pending, consume_size),
                         s.chunk \o quote_chunk, "drain", s.trace, s.iterations + 1)]

\* The drain loop of QotdFinHandler::onWork: while (available > 0), append the
\* first min(available, threshold) pending bytes and consume them.
RECURSIVE FinDrain(_, _, _)
FinDrain(available, s, rej) ==
    IF available > 0
    THEN LET it == DrainIteration(QOTD_PARTIAL_CONSUMPTION_THRESHOLD, available, s, rej)
         IN FinDrain(it.available, it.s, rej)
    ELSE s

\* QotdFinHandler::onWork completing before it drains.
FinWorkCompletesFirst(pend, buf, cpl, rej) ==
    LET c == FinComplete(WorkResult(buf, cpl, pend, <<>>, "drain", <<>>, 0), rej)
    IN FinDrain(Len(pend), WorkResult(c.buffer, c.complete, pend, <<>>, "drain", c.trace, 0), rej)

\* QotdFinHandler::onWork that only shuts down when nothing is pending.
FinWorkNoMark(pend, buf, cpl, rej) ==
    IF Len(pend) = 0
    THEN WorkResult(buf, cpl, <<>>, <<>>, "nodata",
                    <<Event("reset", <<>>, cpl), Event("shutdown", <<>>, cpl)>>, 0)
    ELSE FinComplete(FinDrain(Len(pend), WorkResult(buf, cpl, pend, <<>>, "drain", <<>>, 0),
                              rej), rej)

\* QotdFinHandler::onWork draining one chunk only.
FinWorkOneChunk(pend, buf, cpl, rej) ==
    IF Len(pend) = 0
    THEN FinComplete(WorkResult(buf, cpl, pend, <<>>, "nodata", <<>>, 0), rej)
    ELSE FinComplete(FinDrain(Min(Len(pend), QOTD_PARTIAL_CONSUMPTION_THRESHOLD),
                              WorkResult(buf, cpl, pend, <<>>, "drain", <<>>, 0), rej), rej)

\* QotdFinHandler::onWork on pending bytes `pend`.
FinWork(pend, buf, cpl, rej) ==
    LET available == Len(pend)
    IN IF available = 0
       THEN FinComplete(WorkResult(buf, cpl, pend, <<>>, "nodata", <<>>, 0), rej)
       ELSE FinComplete(FinDrain(available,
                                 WorkResult(buf, cpl, pend, <<>>, "drain", <<>>, 0), rej),
                        rej)

\* QotdConnectedHandler::onWork, as far as the buffer goes: it makes no call on it.
ConnectedWork(buf, cpl, rej) == WorkResult(buf, cpl, <<>>, <<>>, "none", <<>>, 0)

Work(h, rej, pend, r, k, cl) ==
    [h |-> h, rejected |-> rej, avail |-> Len(pend), bufBefore |-> m_buffer,
     cplBefore |-> m_quote_complete, pendBefore |-> pend, pendAfter |-> r.pending,
     sent |-> sent, k |-> k, path |-> r.path, trace |-> r.trace,
     iterations |-> r.iterations, clean |-> cl]

(***************************************************************************)
(* loop() on core 0: get_quote_of_the_day().                               *)
(***************************************************************************)
\* A loop() without the test of ctx1_ready.
LoopRunsUngated == cpc[OTHER_CORE] = "loop"

\* loop() gets past its first statement: setup() has returned on core 0 and
\* ctx1_ready is set (if (!ctx1_ready) { delay(1); return; }).
LoopRuns == cpc[OTHER_CORE] = "loop" /\ ctx1_ready

\* qotd_buffer.get() is issued; core 0 blocks until core 1 has served it.
LoopGetBegin ==
    /\ LoopRuns
    /\ loopFn = "none"
    /\ ExecuteSubmit(OTHER_CORE, "get", <<>>, 0)
    /\ loopFn' = "qotd"
    /\ UNCHANGED <<issued>>
    /\ UNCHANGED <<qotdVars, evVars>>
    /\ UNCHANGED <<operational, ctx1_ready, cpc, echoConn, lastEcho>>
    /\ UNCHANGED <<prVars, ioVars, m_qotd_in_progress, auxVars>>

\* Core 1's run loop serves the call.
Core1Serves ==
    /\ cpc[OWNER_CORE] = "loop"
    /\ RunLoopServes(FALSE)
    /\ UNCHANGED <<issued>>
    /\ UNCHANGED <<qotdVars, evVars>>
    /\ UNCHANGED extVars

\* TcpClient::connected()
Connected == conn \in {"open", "fin"}

\* get_quote_of_the_day() that connects whatever the buffer holds.
LoopGetReturnsIgnoresBuffer ==
    /\ loopFn = "qotd"
    /\ ExecuteReturns(OTHER_CORE)
    /\ loopFn' = "none"
    /\ IF ~Connected
       THEN /\ conn' \in {"connecting", conn}
            /\ IF conn' = conn
               THEN UNCHANGED <<sent, segs, rxPending>>
               ELSE sent' = 0 /\ segs' = 0 /\ rxPending' = <<>>
       ELSE UNCHANGED <<conn, sent, segs, rxPending>>
    /\ UNCHANGED <<issued, evq, opts, printQ, lastWork, taken, clean>>
    /\ UNCHANGED evVars
    /\ UNCHANGED <<operational, ctx1_ready, cpc, echoConn, lastEcho>>
    /\ UNCHANGED <<prVars, ioVars, m_qotd_in_progress, auxVars>>

\* get() returns; with an empty buffer and a client that is not connected,
\* connect() is called, and may fail.
LoopGetReturns ==
    /\ loopFn = "qotd"
    /\ ExecuteReturns(OTHER_CORE)
    /\ loopFn' = "none"
    /\ IF ret'[OTHER_CORE].str = <<>> /\ ~Connected
       THEN /\ conn' \in {"connecting", conn}
            /\ IF conn' = conn
               THEN UNCHANGED <<sent, segs, rxPending>>
               ELSE sent' = 0 /\ segs' = 0 /\ rxPending' = <<>>
       ELSE UNCHANGED <<conn, sent, segs, rxPending>>
    /\ UNCHANGED <<issued, evq, opts, printQ, lastWork, taken, clean>>
    /\ UNCHANGED evVars
    /\ UNCHANGED <<operational, ctx1_ready, cpc, echoConn, lastEcho>>
    /\ UNCHANGED <<prVars, ioVars, m_qotd_in_progress, auxVars>>

(***************************************************************************)
(* The transport: connection set-up, segments, the server's FIN.           *)
(***************************************************************************)
TransportConnected ==
    /\ conn = "connecting"
    /\ conn' = "open"
    /\ evq' = Notify(evq, "connected")
    /\ taken' = <<>>
    /\ clean' = TRUE
    /\ UNCHANGED <<sent, segs, rxPending, opts, printQ, lastWork, issued, hist>>
    /\ UNCHANGED bufVars
    /\ UNCHANGED evVars
    /\ UNCHANGED extVars

TransportDelivers ==
    \E n \in SegSizes :
        /\ conn = "open"
        /\ segs < MaxSegs
        /\ sent + n <= MaxStream
        /\ rxPending' = rxPending \o Bytes(sent + 1, sent + n)
        /\ sent' = sent + n
        /\ segs' = segs + 1
        /\ evq' = Notify(evq, "received")
        /\ UNCHANGED <<conn, opts, printQ, lastWork, taken, clean, issued, hist>>
        /\ UNCHANGED bufVars
        /\ UNCHANGED evVars
        /\ UNCHANGED extVars

TransportFin ==
    /\ conn = "open"
    /\ conn' = "fin"
    /\ evq' = Notify(evq, "fin")
    /\ UNCHANGED <<sent, segs, rxPending, opts, printQ, lastWork, taken, clean, issued, hist>>
    /\ UNCHANGED bufVars
    /\ UNCHANGED evVars
    /\ UNCHANGED extVars

(***************************************************************************)
(* Core 0's run loop runs the callbacks in firing order.                   *)
(***************************************************************************)
ConnectedOnWork ==
    /\ evq # <<>> /\ Head(evq) = "connected"
    /\ printQ < MaxPrintQ
    /\ LET r == ConnectedWork(m_buffer, m_quote_complete, busy)
       IN /\ m_buffer' = r.buffer
          /\ m_quote_complete' = r.complete
          /\ lastWork' = Work("connected", busy, <<>>, r, 0, clean)
    /\ opts' = [keepAlive |-> TRUE, noDelay |-> TRUE]
    /\ printQ' = printQ + 1
    /\ evq' = Tail(evq)
    /\ UNCHANGED <<busy, queue, pc, req, ret, issued, hist>>
    /\ UNCHANGED <<conn, sent, segs, rxPending, taken, clean>>
    /\ UNCHANGED evVars
    /\ UNCHANGED extVars

ReceivedOnWork ==
    /\ evq # <<>> /\ Head(evq) = "received"
    /\ LET r  == ReceivedWork(rxPending, m_buffer, m_quote_complete, busy)
           cl == clean /\ ~busy
       IN /\ m_buffer' = r.buffer
          /\ m_quote_complete' = r.complete
          /\ rxPending' = r.pending
          /\ taken' = taken \o r.chunk
          /\ clean' = cl
          /\ lastWork' = Work("received", busy, rxPending, r, lastWork.k + 1, cl)
    /\ evq' = Tail(evq)
    /\ UNCHANGED <<busy, queue, pc, req, ret, issued, hist>>
    /\ UNCHANGED <<conn, sent, segs, opts, printQ>>
    /\ UNCHANGED evVars
    /\ UNCHANGED extVars

FinOnWork ==
    /\ evq # <<>> /\ Head(evq) = "fin"
    /\ LET r  == FinWork(rxPending, m_buffer, m_quote_complete, busy)
           cl == clean /\ ~busy
       IN /\ m_buffer' = r.buffer
          /\ m_quote_complete' = r.complete
          /\ rxPending' = r.pending
          /\ clean' = cl
          /\ lastWork' = Work("fin", busy, rxPending, r, 0, cl)
    /\ conn' = "idle"
    /\ evq' = Tail(evq)
    /\ UNCHANGED <<busy, queue, pc, req, ret, issued, hist>>
    /\ UNCHANGED <<sent, segs, opts, printQ, taken>>
    /\ UNCHANGED evVars
    /\ UNCHANGED extVars

\* PrintHandler::onWork on core 1: the message is printed, the handler is gone.
PrintOnWork ==
    /\ printQ > 0
    /\ printQ' = printQ - 1
    /\ UNCHANGED <<conn, sent, segs, rxPending, evq, opts, lastWork, taken, clean, issued, hist>>
    /\ UNCHANGED bufVars
    /\ UNCHANGED evVars
    /\ UNCHANGED extVars

Next ==
    \/ LoopGetBegin
    \/ Core1Serves
    \/ LoopGetReturns
    \/ TransportConnected
    \/ TransportDelivers
    \/ TransportFin
    \/ ConnectedOnWork
    \/ ReceivedOnWork
    \/ FinOnWork
    \/ PrintOnWork

Spec == Init /\ [][Next]_vars

(***************************************************************************)
(* Specification SpecEv: the event bridges.  The persistent handlers are    *)
(* bound to ctx0: a firing hands the workload to the handler's workload()   *)
(* and leaves at most one invocation pending on core 0's run loop, which    *)
(* runs the callbacks one at a time, in firing order.  A callback is a      *)
(* sequence of operations; a buffer call in it goes through the bridge to   *)
(* core 1.  The one-shot print handlers are bound to ctx1.                  *)
(***************************************************************************)
Handlers == {"qotd_received", "qotd_fin", "qotd_connected", "qotd_closed",
             "echo_received", "ack", "poll"}

\* The lengths ACK firings carry; 0 stands for a firing without a workload.
AckLens == {1, 2}

\* The receive buffers the transport hands to the QOTD handlers.
RxPtrs == {1, 2}

\* The chunk a callback stores.
Chunk == <<65>>

\* A workload object: its length, how often it was deleted, and whether it was
\* read after it had been deleted.
Workload(l) == [len |-> l, frees |-> 0, readFreed |-> FALSE]

\* TcpAckHandler::workload that copies the length and keeps the object.
AckWorkloadLeaks(data, len, hp) ==
    IF data # 0
    THEN [m_len |-> hp[data].len,
          heap  |-> [hp EXCEPT ![data].readFreed = (hp[data].frees > 0)]]
    ELSE [m_len |-> len, heap |-> hp]

\* TcpAckHandler::workload: if (data) { m_len = *len_ptr; delete len_ptr; }
AckWorkload(data, len, hp) ==
    IF data # 0
    THEN [m_len |-> hp[data].len,
          heap  |-> [hp EXCEPT ![data].readFreed = (hp[data].frees > 0),
                               ![data].frees = @ + 1]]
    ELSE [m_len |-> len, heap |-> hp]

\* QotdReceivedHandler::workload, QotdFinHandler::workload: m_rx_buffer = data.
RxWorkload(h, data, rx) == [rx EXCEPT ![h] = data]

\* The operations of a handler's onWork, in order; avail says whether the
\* transport has bytes pending when the callback starts.
Body(h, avail) ==
    CASE h = "qotd_received"  -> IF avail = 0 THEN <<>> ELSE <<"empty", "store">>
      [] h = "qotd_fin"       -> IF avail = 0 THEN <<"setComplete">>
                                             ELSE <<"append", "setComplete">>
      [] h = "qotd_connected" -> <<"print">>
      [] h = "qotd_closed"    -> <<"clearInProgress">>
      [] h = "echo_received"  -> IF avail = 0 THEN <<>> ELSE <<"print">>
      [] h = "ack"            -> <<"onAckReceived">>
      [] OTHER                -> <<>>

\* What peekAvailable() can answer at the start of a callback that asks.
AvailOf(h) == IF h \in {"qotd_received", "qotd_fin", "echo_received"} THEN {0, 1} ELSE {1}

Top == frames[Len(frames)]

NextOp ==
    IF Top.at <= Len(Body(Top.h, Top.avail)) THEN Body(Top.h, Top.avail)[Top.at] ELSE "return"

Advance == frames' = [frames EXCEPT ![Len(frames)].at = @ + 1]

\* PrintHandler::create that builds the handler and never schedules its run.
EphemeralCreateNotRun(cr, lv, pr) ==
    [created |-> cr + 1, live |-> lv \cup {cr + 1}, printers |-> pr]

\* PrintHandler::create: the handler is built, owns itself and is scheduled.
EphemeralCreate(cr, lv, pr) ==
    [created |-> cr + 1, live |-> lv \cup {cr + 1}, printers |-> Append(pr, cr + 1)]

\* A firing of the ACK handler, with a freshly allocated length or with no workload.
FireAck ==
    \E l \in AckLens \cup {0} :
        /\ fired < MaxFirings
        /\ fired' = fired + 1
        /\ LET hp   == IF l = 0 THEN heap ELSE Append(heap, Workload(l))
               data == IF l = 0 THEN 0 ELSE Len(hp)
               r    == AckWorkload(data, m_len, hp)
           IN /\ m_len' = r.m_len
              /\ heap' = r.heap
        /\ ackFired' = IF l = 0 THEN ackFired ELSE Append(ackFired, l)
        /\ runq0' = Notify(runq0, "ack")
        /\ UNCHANGED <<frames, ackDelivered, m_rx_buffer, created, live, printers, completed>>
        /\ UNCHANGED <<bufVars, issued, hist, qotdVars>>
        /\ UNCHANGED extVars

\* A firing of a QOTD data or FIN handler, with the transport's receive buffer.
FireRx ==
    \E h \in RxHandlers, p \in RxPtrs :
        /\ fired < MaxFirings
        /\ fired' = fired + 1
        /\ m_rx_buffer' = RxWorkload(h, p, m_rx_buffer)
        /\ runq0' = Notify(runq0, h)
        /\ UNCHANGED <<frames, m_len, ackFired, ackDelivered, heap,
                       created, live, printers, completed>>
        /\ UNCHANGED <<bufVars, issued, hist, qotdVars>>
        /\ UNCHANGED extVars

\* A firing of a handler that takes no workload.
FirePlain ==
    \E h \in Handlers \ (RxHandlers \cup {"ack"}) :
        /\ fired < MaxFirings
        /\ fired' = fired + 1
        /\ runq0' = Notify(runq0, h)
        /\ UNCHANGED <<frames, m_len, ackFired, ackDelivered, heap, m_rx_buffer,
                       created, live, printers, completed>>
        /\ UNCHANGED <<bufVars, issued, hist, qotdVars>>
        /\ UNCHANGED extVars

\* Core 0's run loop that starts the next callback while the one in progress
\* is waiting in a buffer call.
CbStartNested ==
    /\ runq0 # <<>>
    /\ frames = <<>> \/ pc[OTHER_CORE] = "waiting"
    /\ \E a \in AvailOf(Head(runq0)) :
          frames' = Append(frames, [h |-> Head(runq0), at |-> 1, avail |-> a])
    /\ runq0' = Tail(runq0)
    /\ UNCHANGED <<fired, m_len, ackFired, ackDelivered, heap, m_rx_buffer,
                   created, live, printers, completed>>
    /\ UNCHANGED <<bufVars, issued, hist, qotdVars>>
    /\ UNCHANGED extVars

\* Core 0's run loop starts the pending callback that fired first, when no
\* callback is in progress.
CbStart ==
    /\ runq0 # <<>>
    /\ frames = <<>>
    /\ \E a \in AvailOf(Head(runq0)) :
          frames' = Append(frames, [h |-> Head(runq0), at |-> 1, avail |-> a])
    /\ runq0' = Tail(runq0)
    /\ UNCHANGED <<fired, m_len, ackFired, ackDelivered, heap, m_rx_buffer,
                   created, live, printers, completed>>
    /\ UNCHANGED <<bufVars, issued, hist, qotdVars>>
    /\ UNCHANGED extVars

\* The callback calls a wrapper of the buffer: empty(), then set() or append()
\* as empty() answered; append() and setComplete() at the FIN.
CbCall ==
    /\ frames # <<>>
    /\ NextOp \in {"empty", "store", "append", "setComplete"}
    /\ LET w == IF NextOp = "store"
                THEN (IF ret[OTHER_CORE].bool THEN "set" ELSE "append")
                ELSE NextOp
           d == IF w \in {"set", "append"} THEN Chunk ELSE <<>>
       IN ExecuteSubmit(OTHER_CORE, w, d, 0)
    /\ Advance
    /\ UNCHANGED <<runq0, fired, m_len, ackFired, ackDelivered, heap, m_rx_buffer,
                   created, live, printers, completed>>
    /\ UNCHANGED <<issued, qotdVars>>
    /\ UNCHANGED extVars

\* The buffer call of the callback returns.
CbCallReturns ==
    /\ frames # <<>>
    /\ ExecuteReturns(OTHER_CORE)
    /\ UNCHANGED <<issued, qotdVars, evVars>>
    /\ UNCHANGED extVars

\* m_serial_printer.print(): a one-shot print handler is created, or the
\* message is dropped.
CbPrint ==
    /\ frames # <<>>
    /\ pc[OTHER_CORE] = "idle"
    /\ NextOp = "print"
    /\ LET r == EphemeralCreate(created, live, printers)
       IN IF created < MaxCreates
          THEN created' = r.created /\ live' = r.live /\ printers' = r.printers
          ELSE UNCHANGED <<created, live, printers>>
    /\ Advance
    /\ UNCHANGED <<runq0, fired, m_len, ackFired, ackDelivered, heap, m_rx_buffer, completed>>
    /\ UNCHANGED <<bufVars, issued, hist, qotdVars>>
    /\ UNCHANGED extVars

\* TcpAckHandler::onWork: writer->onAckReceived(m_len).
CbAck ==
    /\ frames # <<>>
    /\ pc[OTHER_CORE] = "idle"
    /\ NextOp = "onAckReceived"
    /\ ackDelivered' = Append(ackDelivered, m_len)
    /\ Advance
    /\ UNCHANGED <<runq0, fired, m_len, ackFired, heap, m_rx_buffer,
                   created, live, printers, completed>>
    /\ UNCHANGED <<bufVars, issued, hist, qotdVars>>
    /\ UNCHANGED extVars

\* QotdClosedHandler::onWork: m_qotd_in_progress = false.
CbClearInProgress ==
    /\ frames # <<>>
    /\ pc[OTHER_CORE] = "idle"
    /\ NextOp = "clearInProgress"
    /\ m_qotd_in_progress' = FALSE
    /\ Advance
    /\ UNCHANGED <<runq0, fired, m_len, ackFired, ackDelivered, heap, m_rx_buffer,
                   created, live, printers, completed>>
    /\ UNCHANGED <<bufVars, issued, hist, qotdVars>>
    /\ UNCHANGED <<mainVars, prVars, ioVars, auxVars>>

\* onWork returns to the run loop.
CbReturn ==
    /\ frames # <<>>
    /\ pc[OTHER_CORE] = "idle"
    /\ NextOp = "return"
    /\ frames' = SubSeq(frames, 1, Len(frames) - 1)
    /\ UNCHANGED <<runq0, fired, m_len, ackFired, ackDelivered, heap, m_rx_buffer,
                   created, live, printers, completed>>
    /\ UNCHANGED <<bufVars, issued, hist, qotdVars>>
    /\ UNCHANGED extVars

\* print_stack_stats() / print_heap_stats() in loop() and loop1():
\* serial_printer.print() creates a one-shot print handler.
LoopPrints ==
    /\ created < MaxCreates
    /\ LET r == EphemeralCreate(created, live, printers)
       IN created' = r.created /\ live' = r.live /\ printers' = r.printers
    /\ UNCHANGED <<frames, runq0, fired, m_len, ackFired, ackDelivered, heap,
                   m_rx_buffer, completed>>
    /\ UNCHANGED <<bufVars, issued, hist, qotdVars>>
    /\ UNCHANGED extVars

\* Core 1's run loop runs the oldest print handler: PrintHandler::onWork, after
\* which the handler is destroyed.
EphemeralRun ==
    /\ printers # <<>>
    /\ printers' = Tail(printers)
    /\ live' = live \ {Head(printers)}
    /\ completed' = completed + 1
    /\ UNCHANGED <<frames, runq0, fired, m_len, ackFired, ackDelivered, heap,
                   m_rx_buffer, created>>
    /\ UNCHANGED <<bufVars, issued, hist, qotdVars>>
    /\ UNCHANGED extVars

NextEv ==
    \/ FireAck
    \/ FireRx
    \/ FirePlain
    \/ CbStart
    \/ CbCall
    \/ Core1Serves
    \/ CbCallReturns
    \/ CbPrint
    \/ CbAck
    \/ CbClearInProgress
    \/ CbReturn
    \/ LoopPrints
    \/ EphemeralRun

SpecEv == Init /\ [][NextEv]_vars

\* SpecEv with a core 1 whose run loop keeps running.
SpecEvLive == SpecEv /\ WF_vars(EphemeralRun)

(***************************************************************************)
(* Specification SpecPrint: the print path in single steps.  print() is     *)
(* called from loop() and from a handler callback on core 0 (the callback   *)
(* interrupts loop() and runs to its end) and from loop1() on core 1.  The  *)
(* one-shot handlers are bound to ctx1: core 1's run loop runs each         *)
(* callback, interrupting loop1(), and destroys the handler afterwards.     *)
(***************************************************************************)
MaxPrints == 3   \* print() calls in one run of the print specification

\* The messages: an empty string and a line.
PrintTexts == {<<>>, <<65>>}

CoreOf(k) == IF k = "loop1" THEN OWNER_CORE ELSE OTHER_CORE

\* print_lock.compare_exchange_strong(expected = false, true) that always succeeds.
CompareExchangeAlwaysWins(lock) == [ok |-> TRUE, lock |-> TRUE]

\* print_lock.compare_exchange_strong(expected = false, true)
CompareExchange(lock) == [ok |-> (lock = FALSE), lock |-> TRUE]

\* PrintHandler::create that schedules the handler before it owns itself.
FactoryRunsBeforeOwning ==
    <<"make_unique", "initialiseEphemeralBridge", "run", "takeOwnership">>

\* PrintHandler::create, statement by statement.
Factory == <<"make_unique", "initialiseEphemeralBridge", "takeOwnership", "run">>

\* The PrintHandler make_unique builds for the message of print() call t.
NewHandler(t, text) ==
    [ticket |-> t, text |-> text, initialised |-> FALSE, owned |-> FALSE,
     scheduled |-> 0, runs |-> 0, destroys |-> 0, ranOn |-> OWNER_CORE,
     destroyedOn |-> OWNER_CORE, touchedDead |-> FALSE]

\* A statement of the factory that goes through raw_ptr.
FactoryStep(op, h) ==
    LET d == [h EXCEPT !.touchedDead = (@ \/ h.destroys > 0)]
    IN CASE op = "initialiseEphemeralBridge" -> [d EXCEPT !.initialised = TRUE]
         [] op = "takeOwnership"             -> [d EXCEPT !.owned = TRUE]
         [] op = "run"                       -> [d EXCEPT !.scheduled = @ + 1]

\* run(0) that puts the handler in front of the handlers already scheduled.
ScheduleFirst(q, id) == <<id>> \o q

\* run(0): the handler is queued on its context's run loop.
Schedule(q, id) == Append(q, id)

\* PrintHandler::onWork: a message that is not empty is printed and released.
PrintWork(h, out) ==
    IF h.text # <<>>
    THEN [out |-> Append(out, [ticket |-> h.ticket, text |-> h.text]), text |-> <<>>]
    ELSE [out |-> out, text |-> h.text]

\* The caller is not interrupted: a handler callback on core 0 runs to its end
\* before loop() goes on, a print callback on core 1 before loop1() goes on.
CanStep(k) ==
    CASE k = "loop"  -> prAt["handler"].step = 0
      [] k = "loop1" -> running = 0
      [] OTHER       -> TRUE

\* SerialPrinter::print up to the compare-and-swap: on contention it returns
\* PICO_ERROR_RESOURCE_IN_USE, otherwise it holds the guard.
PrintEnterAs(k, text) ==
    /\ prAt[k].step = 0
    /\ CanStep(k)
    /\ Len(printLog) < MaxPrints
    /\ LET cas == CompareExchange(print_lock)
           t   == Len(printLog) + 1
       IN /\ print_lock' = cas.lock
          /\ printLog' = Append(printLog,
                [caller |-> k, text |-> text, held |-> print_lock,
                 status |-> IF cas.ok THEN "pending" ELSE "PICO_ERROR_RESOURCE_IN_USE"])
          /\ prAt' = IF cas.ok
                     THEN [prAt EXCEPT ![k] = [step |-> 1, ticket |-> t, id |-> 0, text |-> text]]
                     ELSE prAt
    /\ UNCHANGED <<hnd, running, serial, created, live, printers, completed>>
    /\ UNCHANGED <<frames, runq0, fired, m_len, ackFired, ackDelivered, heap, m_rx_buffer>>
    /\ UNCHANGED <<bufVars, issued, hist, qotdVars, mainVars, ioVars, m_qotd_in_progress>>

PrintEnter ==
    \E k \in PrintCallers, text \in PrintTexts :
        /\ PrintEnterAs(k, text)
        /\ UNCHANGED auxVars

\* The next statement of PrintHandler::create.
PrintCreateStep ==
    \E k \in PrintCallers :
        /\ prAt[k].step \in 1..Len(Factory)
        /\ CanStep(k)
        /\ LET op == Factory[prAt[k].step]
               id == IF op = "make_unique" THEN Len(hnd) + 1 ELSE prAt[k].id
           IN /\ hnd' = IF op = "make_unique"
                        THEN Append(hnd, NewHandler(prAt[k].ticket, prAt[k].text))
                        ELSE [hnd EXCEPT ![id] = FactoryStep(op, hnd[id])]
              /\ created' = IF op = "make_unique" THEN created + 1 ELSE created
              /\ live' = IF op = "make_unique" THEN live \cup {id} ELSE live
              /\ printers' = IF op = "run" THEN Schedule(printers, id) ELSE printers
              /\ prAt' = [prAt EXCEPT ![k].step = @ + 1, ![k].id = id]
        /\ UNCHANGED <<print_lock, running, serial, printLog, completed>>
        /\ UNCHANGED <<frames, runq0, fired, m_len, ackFired, ackDelivered, heap, m_rx_buffer>>
        /\ UNCHANGED <<bufVars, issued, hist, qotdVars, mainVars, ioVars, m_qotd_in_progress, auxVars>>

\* print() that returns PICO_OK without releasing the guard.
PrintReleaseKeepsLock ==
    \E k \in PrintCallers :
        /\ prAt[k].step = Len(Factory) + 1
        /\ CanStep(k)
        /\ print_lock' = print_lock
        /\ printLog' = [printLog EXCEPT ![prAt[k].ticket].status = "PICO_OK"]
        /\ prAt' = [prAt EXCEPT ![k] = NoPrint]
        /\ UNCHANGED <<hnd, running, serial, created, live, printers, completed>>
        /\ UNCHANGED <<frames, runq0, fired, m_len, ackFired, ackDelivered, heap, m_rx_buffer>>
        /\ UNCHANGED <<bufVars, issued, hist, qotdVars, mainVars, ioVars, m_qotd_in_progress, auxVars>>

\* print_lock.store(false); return PICO_OK;
PrintRelease ==
    \E k \in PrintCallers :
        /\ prAt[k].step = Len(Factory) + 1
        /\ CanStep(k)
        /\ print_lock' = FALSE
        /\ printLog' = [printLog EXCEPT ![prAt[k].ticket].status = "PICO_OK"]
        /\ prAt' = [prAt EXCEPT ![k] = NoPrint]
        /\ UNCHANGED <<hnd, running, serial, created, live, printers, completed>>
        /\ UNCHANGED <<frames, runq0, fired, m_len, ackFired, ackDelivered, heap, m_rx_buffer>>
        /\ UNCHANGED <<bufVars, issued, hist, qotdVars, mainVars, ioVars, m_qotd_in_progress, auxVars>>

\* Core 1's run loop runs the callback of the handler scheduled first.
RunLoopRunsPrint ==
    /\ printers # <<>>
    /\ running = 0
    /\ LET id == Head(printers)
           w  == PrintWork(hnd[id], serial)
       IN /\ running' = id
          /\ serial' = w.out
          /\ hnd' = [hnd EXCEPT ![id].runs = @ + 1, ![id].text = w.text,
                                ![id].ranOn = OWNER_CORE,
                                ![id].touchedDead = (@ \/ hnd[id].destroys > 0)]
    /\ printers' = Tail(printers)
    /\ UNCHANGED <<print_lock, prAt, printLog, created, live, completed>>
    /\ UNCHANGED <<frames, runq0, fired, m_len, ackFired, ackDelivered, heap, m_rx_buffer>>
    /\ UNCHANGED <<bufVars, issued, hist, qotdVars, mainVars, ioVars, m_qotd_in_progress, auxVars>>

\* The callback has returned: the run loop releases the handle the handler
\* holds to itself, which destroys the handler.
RunLoopDestroys ==
    /\ running # 0
    /\ hnd' = IF hnd[running].owned
              THEN [hnd EXCEPT ![running].destroys = @ + 1,
                               ![running].destroyedOn = OWNER_CORE,
                               ![running].owned = FALSE]
              ELSE hnd
    /\ live' = IF hnd[running].owned THEN live \ {running} ELSE live
    /\ completed' = completed + 1
    /\ running' = 0
    /\ UNCHANGED <<print_lock, prAt, serial, printLog, created, printers>>
    /\ UNCHANGED <<frames, runq0, fired, m_len, ackFired, ackDelivered, heap, m_rx_buffer>>
    /\ UNCHANGED <<bufVars, issued, hist, qotdVars, mainVars, ioVars, m_qotd_in_progress, auxVars>>

NextPrint ==
    \/ PrintEnter
    \/ PrintCreateStep
    \/ PrintRelease
    \/ RunLoopRunsPrint
    \/ RunLoopDestroys

SpecPrint == Init /\ [][NextPrint]_vars

\* SpecPrint with callers that go on and a core 1 whose run loop keeps running.
SpecPrintLive ==
    /\ SpecPrint
    /\ WF_vars(PrintCreateStep)
    /\ WF_vars(PrintRelease)
    /\ WF_vars(RunLoopRunsPrint)
    /\ WF_vars(RunLoopDestroys)

(***************************************************************************)
(* Specification SpecMain: main.cpp from power-up.  setup() runs on core 0  *)
(* and setup1() on core 1; then loop() calls get_quote_of_the_day(),        *)
(* get_echo() and print_stack_stats(), loop1() prints, and the transport    *)
(* and the QOTD handlers act as in Spec.                                    *)
(***************************************************************************)
\* QuoteBuffer::END_OF_QUOTE_MARKER.  The bytes of the server's quote are
\* numbered in the model; the marker is taken to be the text of bytes 14 and
\* 15, so that a quote holds it once 15 bytes of it are in the buffer.
END_OF_QUOTE_MARKER == <<14, 15>>

\* std::string::find(marker) != npos
Contains(s, m) ==
    \E i \in 1..(Len(s) - Len(m) + 1) : SubSeq(s, i, i + Len(m) - 1) = m

\* A start-up that sets its flag although initDefaultContext failed.
StartCoreFlagsFirst(ok) == [at |-> IF ok THEN "loop" ELSE "panic", flag |-> TRUE]

\* if (!ctx.initDefaultContext(config)) panic_compact(...); ...; flag = true;
StartCore(ok) == [at |-> IF ok THEN "loop" ELSE "panic", flag |-> ok]

\* The state at power-up: both cores enter their setup functions.
InitBoot ==
    /\ operational = FALSE
    /\ ctx1_ready = FALSE
    /\ cpc = [c \in Cores |-> "setup"]

InitMainBoot == InitBuffer /\ InitQotd /\ InitEvents /\ InitBoot /\ InitRest

\* setup(): ctx0 is initialised, the writer and the handlers are registered,
\* operational is set; or core 0 panics.
Setup ==
    \E ok \in BOOLEAN :
        /\ cpc[OTHER_CORE] = "setup"
        /\ cpc' = [cpc EXCEPT ![OTHER_CORE] = StartCore(ok).at]
        /\ operational' = StartCore(ok).flag
        /\ UNCHANGED <<ctx1_ready, loopFn, echoConn, lastEcho>>
        /\ UNCHANGED <<bufVars, issued, hist, qotdVars, evVars>>
        /\ UNCHANGED <<prVars, ioVars, m_qotd_in_progress, auxVars>>

\* setup1(): once operational is set, ctx1 is initialised and ctx1_ready is
\* set; or core 1 panics.
Setup1 ==
    \E ok \in BOOLEAN :
        /\ cpc[OWNER_CORE] = "setup"
        /\ operational
        /\ cpc' = [cpc EXCEPT ![OWNER_CORE] = StartCore(ok).at]
        /\ ctx1_ready' = StartCore(ok).flag
        /\ UNCHANGED <<operational, loopFn, echoConn, lastEcho>>
        /\ UNCHANGED <<bufVars, issued, hist, qotdVars, evVars>>
        /\ UNCHANGED <<prVars, ioVars, m_qotd_in_progress, auxVars>>

\* echo_client.connected()
EchoConnected == echoConn = "open"

\* get_echo() that sends whatever the buffer holds.
EchoDecisionSendsAny(content) == IF content # <<>> THEN "write" ELSE "none"

\* get_echo(): the content is sent if it is not empty and holds the marker.
EchoDecision(content) ==
    IF content # <<>> /\ Contains(content, END_OF_QUOTE_MARKER) THEN "write" ELSE "none"

\* get_echo() with a client that is not connected: connect() is called, and
\* may fail.
LoopEchoConnects ==
    /\ LoopRuns
    /\ loopFn = "none"
    /\ pc[OTHER_CORE] = "idle"
    /\ ~EchoConnected
    /\ echoConn' \in {"connecting", echoConn}
    /\ UNCHANGED <<operational, ctx1_ready, cpc, loopFn, lastEcho>>
    /\ UNCHANGED <<bufVars, issued, hist, qotdVars, evVars>>
    /\ UNCHANGED <<prVars, ioVars, m_qotd_in_progress, auxVars>>

\* get_echo() with a connected client: qotd_buffer.get() is issued.
LoopEchoBegin ==
    /\ LoopRuns
    /\ loopFn = "none"
    /\ EchoConnected
    /\ ExecuteSubmit(OTHER_CORE, "get", <<>>, 0)
    /\ loopFn' = "echo"
    /\ UNCHANGED <<operational, ctx1_ready, cpc, echoConn, lastEcho>>
    /\ UNCHANGED <<issued, qotdVars, evVars>>
    /\ UNCHANGED <<prVars, ioVars, m_qotd_in_progress, auxVars>>

\* get() returns to get_echo(), which writes the content to the echo client
\* or leaves it.
LoopEchoReturns ==
    /\ loopFn = "echo"
    /\ ExecuteReturns(OTHER_CORE)
    /\ loopFn' = "none"
    /\ lastEcho' = [did |-> EchoDecision(ret'[OTHER_CORE].str)]
    /\ UNCHANGED <<operational, ctx1_ready, cpc, echoConn>>
    /\ UNCHANGED <<issued, qotdVars, evVars>>
    /\ UNCHANGED <<prVars, ioVars, m_qotd_in_progress, auxVars>>

\* The echo connection is established and EchoConnectedHandler::onWork prints
\* its notice.
EchoConnectedOnWork ==
    /\ echoConn = "connecting"
    /\ printQ < MaxPrintQ
    /\ echoConn' = "open"
    /\ printQ' = printQ + 1
    /\ UNCHANGED <<conn, sent, segs, rxPending, evq, opts, lastWork, taken, clean>>
    /\ UNCHANGED <<operational, ctx1_ready, cpc, loopFn, lastEcho>>
    /\ UNCHANGED <<bufVars, issued, hist, evVars>>
    /\ UNCHANGED <<prVars, ioVars, m_qotd_in_progress, auxVars>>

\* print_stack_stats() / print_heap_stats() in loop() and loop1().
LoopPrintsStats ==
    \E c \in Cores :
        /\ IF c = OTHER_CORE
           THEN LoopRuns /\ loopFn = "none" /\ pc[OTHER_CORE] = "idle"
           ELSE cpc[OWNER_CORE] = "loop"
        /\ printQ < MaxPrintQ
        /\ printQ' = printQ + 1
        /\ UNCHANGED <<conn, sent, segs, rxPending, evq, opts, lastWork, taken, clean>>
        /\ UNCHANGED <<bufVars, issued, hist, evVars>>
        /\ UNCHANGED extVars

NextMain ==
    \/ Setup
    \/ Setup1
    \/ LoopGetBegin
    \/ Core1Serves
    \/ LoopGetReturns
    \/ LoopEchoConnects
    \/ LoopEchoBegin
    \/ LoopEchoReturns
    \/ EchoConnectedOnWork
    \/ LoopPrintsStats
    \/ TransportConnected
    \/ TransportDelivers
    \/ TransportFin
    \/ ConnectedOnWork
    \/ ReceivedOnWork
    \/ FinOnWork
    \/ PrintOnWork

SpecMain == InitMainBoot /\ [][NextMain]_vars

\* Core 0's run loop takes the callback that fired first.
CallbackRuns == evq # <<>> /\ evq' = Tail(evq)

\* SpecMain with both cores going on running and with servers that respond.
\* Core 1 serves the calls and prints, the transport establishes, delivers and
\* closes, and core 0's run loop goes on taking the callbacks that fired
\* (weak fairness).  loop() goes on calling get_quote_of_the_day and get_echo
\* in turn, a connect() to the echo server that is called again and again
\* does not fail every time, and its connected callback is not put off for
\* ever by the print queue (strong fairness).
SpecMainLive ==
    /\ SpecMain
    /\ WF_vars(Setup) /\ WF_vars(Setup1)
    /\ WF_vars(Core1Serves) /\ WF_vars(LoopGetReturns)
    /\ WF_vars(LoopEchoConnects) /\ WF_vars(LoopEchoReturns)
    /\ WF_vars(LoopPrintsStats) /\ WF_vars(PrintOnWork)
    /\ WF_vars(TransportConnected) /\ WF_vars(TransportDelivers) /\ WF_vars(TransportFin)
    /\ WF_evq(CallbackRuns)
    /\ SF_vars(LoopGetBegin) /\ SF_vars(LoopEchoBegin)
    /\ SF_vars(LoopEchoConnects /\ echoConn' = "connecting")
    /\ SF_vars(EchoConnectedOnWork)

(***************************************************************************)
(* Specification SpecIo: IoWrite, a synchronous bridge in front of a TCP    *)
(* client's write.  Code on both cores calls IoWrite::write(data, size).    *)
(* A WritePayload lives on the heap; a unique_ptr to it is a handle, the    *)
(* index of the payload in ioHeap, and 0 is the null handle.                *)
(***************************************************************************)
MaxIoCalls == 3   \* IoWrite::write calls in one run of the write specification
MaxIoSize  == 2   \* the largest size passed to IoWrite::write

\* The core of the context the IoWrite is constructed with: the clients and
\* their handlers are bound to ctx0.
IoOwner == OTHER_CORE

IoSizes == 1..MaxIoSize

\* WritePayload(): type(BUFFER), size(0), result(0); then payload->size = size.
NewWritePayload(c, size) ==
    [caller |-> c, size |-> size, result |-> 0, executed |-> FALSE, reported |-> 0]

\* m_client.write(data, size): the client reports how many of the bytes it took.
ClientWrite(size) == 0..size

\* IoWrite::onExecute, case BUFFER: write_payload->result = m_client.write(...).
IoOnExecute(p, n) == [p EXCEPT !.result = n, !.executed = TRUE, !.reported = n]

\* std::move(payload): the handle goes to execute, the local is left null.
MoveFrom(handle) == [moved |-> handle, left |-> 0]

Value(n) == [kind |-> "value", n |-> n]
Fault    == [kind |-> "fault", n |-> 0]

\* handle->result.  Through the null handle the read is undefined: it faults,
\* or it yields whatever the addressed memory holds.
ReadResult(handle, h) ==
    IF handle = 0
    THEN {Fault} \cup {Value(n) : n \in 0..MaxIoSize}
    ELSE {Value(h[handle].result)}

IoRest == <<bufVars, issued, hist, qotdVars, evVars, mainVars, prVars, m_qotd_in_progress,
            auxVars>>

\* write(): make_unique, fill in, execute(std::move(payload)) from the owning
\* core: onExecute runs inline.
IoWriteInline ==
    \E size \in IoSizes : \E n \in ClientWrite(size) :
        LET c  == IoOwner
            id == Len(ioHeap) + 1
            mv == MoveFrom(id)
        IN /\ Len(ioHeap) < MaxIoCalls
           /\ ioAt[c].step = "idle"
           /\ ~ioBusy
           /\ ioHeap' = Append(ioHeap, IoOnExecute(NewWritePayload(c, size), n))
           /\ ioAt' = [ioAt EXCEPT ![c] = [step |-> "served", handle |-> mv.left,
                                           pid |-> mv.moved, status |-> "PICO_OK"]]
           /\ UNCHANGED <<ioBusy, ioQueue, ioLog>>
           /\ UNCHANGED IoRest

\* write() from the other core: execute takes the guard, queues the payload on
\* the owning core's run loop and blocks.
IoWriteSubmit ==
    \E c \in Cores \ {IoOwner} : \E size \in IoSizes :
        LET id == Len(ioHeap) + 1
            mv == MoveFrom(id)
        IN /\ Len(ioHeap) < MaxIoCalls
           /\ ioAt[c].step = "idle"
           /\ ~ioBusy
           /\ ioHeap' = Append(ioHeap, NewWritePayload(c, size))
           /\ ioBusy' = TRUE
           /\ ioQueue' = Append(ioQueue, mv.moved)
           /\ ioAt' = [ioAt EXCEPT ![c] = [step |-> "waiting", handle |-> mv.left,
                                           pid |-> mv.moved, status |-> "NONE"]]
           /\ UNCHANGED ioLog
           /\ UNCHANGED IoRest

\* write() while another write is in progress on the bridge: execute returns
\* PICO_ERROR_RESOURCE_IN_USE and onExecute does not run.
IoWriteRejected ==
    \E c \in Cores : \E size \in IoSizes :
        LET id == Len(ioHeap) + 1
            mv == MoveFrom(id)
        IN /\ Len(ioHeap) < MaxIoCalls
           /\ ioAt[c].step = "idle"
           /\ ioBusy
           /\ ioHeap' = Append(ioHeap, NewWritePayload(c, size))
           /\ ioAt' = [ioAt EXCEPT ![c] = [step |-> "served", handle |-> mv.left,
                                           pid |-> mv.moved,
                                           status |-> "PICO_ERROR_RESOURCE_IN_USE"]]
           /\ UNCHANGED <<ioBusy, ioQueue, ioLog>>
           /\ UNCHANGED IoRest

\* The owning core's run loop runs onExecute on the payload queued first.
IoServe ==
    /\ ioQueue # <<>>
    /\ ioAt[IoOwner].step = "idle"
    /\ LET id == Head(ioQueue)
           c  == ioHeap[id].caller
       IN \E n \in ClientWrite(ioHeap[id].size) :
             /\ ioHeap' = [ioHeap EXCEPT ![id] = IoOnExecute(@, n)]
             /\ ioAt' = [ioAt EXCEPT ![c].step = "served", ![c].status = "PICO_OK"]
    /\ ioQueue' = Tail(ioQueue)
    /\ UNCHANGED <<ioBusy, ioLog>>
    /\ UNCHANGED IoRest

\* execute has returned; return payload->result.
IoWriteReturns ==
    \E c \in Cores :
        /\ ioAt[c].step = "served"
        /\ \E v \in ReadResult(ioAt[c].handle, ioHeap) :
              /\ ioLog' = Append(ioLog, [pid |-> ioAt[c].pid, returned |-> v])
              /\ ioAt' = [ioAt EXCEPT ![c] =
                            IF v = Fault THEN [ioAt[c] EXCEPT !.step = "fault"] ELSE NoWrite]
        /\ ioBusy' = IF ioAt[c].status = "PICO_OK" /\ c # IoOwner THEN FALSE ELSE ioBusy
        /\ UNCHANGED <<ioQueue, ioHeap>>
        /\ UNCHANGED IoRest

NextIo ==
    \/ IoWriteInline
    \/ IoWriteSubmit
    \/ IoWriteRejected
    \/ IoServe
    \/ IoWriteReturns

SpecIo == Init /\ [][NextIo]_vars

(***************************************************************************)
(* Specification SpecDrain: QotdFinHandler::onWork with bytes pending, one  *)
(* iteration of its drain loop per step.  QotdConfig.hpp is not part of the *)
(* sources, so the threshold is any of Thresholds; the number of pending    *)
(* bytes is any of 1..MaxDrain.  The callback either finds the bridge free  *)
(* for all its calls or in use for all of them.                             *)
(***************************************************************************)
MaxDrain == 25   \* the most bytes pending when the FIN callback starts

Thresholds == {1, 3, QOTD_PARTIAL_CONSUMPTION_THRESHOLD}

DrainRest == <<busy, queue, pc, req, ret, issued, hist,
               conn, sent, segs, evq, opts, printQ, lastWork, taken, clean,
               evVars, mainVars, prVars, ioVars, m_qotd_in_progress,
               poll, echo, loop_tasks, schedLog>>

\* auto available = m_rx_buffer->peekAvailable(); available > 0: the callback
\* enters the drain loop.
DrainBegin ==
    \E T \in Thresholds, n \in 1..MaxDrain, rej \in BOOLEAN :
        /\ drain.at = "idle"
        /\ rxPending' = Bytes(1, n)
        /\ drain' = [at |-> "loop", T |-> T, n |-> n, available |-> n, rej |-> rej,
                     steps |-> <<>>]
        /\ UNCHANGED <<m_buffer, m_quote_complete>>
        /\ UNCHANGED DrainRest

\* while (available > 0) { ... }: one iteration.
DrainStep ==
    /\ drain.at = "loop"
    /\ drain.available > 0
    /\ LET s  == WorkResult(m_buffer, m_quote_complete, rxPending, <<>>, "drain", <<>>,
                            Len(drain.steps))
           it == DrainIteration(drain.T, drain.available, s, drain.rej)
       IN /\ m_buffer' = it.s.buffer
          /\ m_quote_complete' = it.s.complete
          /\ rxPending' = it.s.pending
          /\ drain' = [drain EXCEPT
                         !.available = it.available,
                         !.steps = Append(@, [before |-> drain.available,
                                              consumed |-> Len(rxPending) - Len(it.s.pending),
                                              after |-> it.available])]
    /\ UNCHANGED DrainRest

\* The loop condition is false: setComplete(), m_rx_buffer->reset(), shutdown().
DrainEnd ==
    /\ drain.at = "loop"
    /\ drain.available = 0
    /\ LET s == WorkResult(m_buffer, m_quote_complete, rxPending, <<>>, "drain", <<>>,
                           Len(drain.steps))
           c == FinComplete(s, drain.rej)
       IN /\ m_buffer' = c.buffer
          /\ m_quote_complete' = c.complete
          /\ rxPending' = c.pending
    /\ drain' = [drain EXCEPT !.at = "done"]
    /\ UNCHANGED DrainRest

NextDrain ==
    \/ DrainBegin
    \/ DrainStep
    \/ DrainEnd

SpecDrain == Init /\ [][NextDrain]_vars

\* SpecDrain with a core 0 that goes on running the callback.
SpecDrainLive == SpecDrain /\ WF_vars(DrainStep) /\ WF_vars(DrainEnd)

(***************************************************************************)
(* Specification SpecPoll: TcpPollHandler.  The client may or may not have  *)
(* a writer; a writer's hasTimedOut() changes as time passes and as writes  *)
(* make progress; the transport's poll notification runs onWork on the      *)
(* handler's core.                                                          *)
(***************************************************************************)
MaxPolls == 6   \* poll callbacks in one run of the poll specification

PollRest == <<bufVars, issued, hist, qotdVars, evVars, mainVars, prVars, ioVars,
              m_qotd_in_progress, drain, echo, loop_tasks, schedLog>>

\* TcpPollHandler::onWork that raises the event for every writer.
PollWorkIgnoresTimeout(p) == p.writer

\* TcpPollHandler::onWork: if (auto *writer = m_io.getWriter())
\*                             if (writer->hasTimedOut()) writer->onWriteTimeout();
\* TRUE when onWriteTimeout is called.
PollWork(p) ==
    IF p.writer
    THEN (IF p.hasTimedOut THEN TRUE ELSE FALSE)
    ELSE FALSE

\* TcpClient::setWriter: the client gets a writer, which has not timed out, or
\* is left without one.
PollSetWriter ==
    \E w \in BOOLEAN :
        /\ w # poll.writer
        /\ poll' = [poll EXCEPT !.writer = w, !.hasTimedOut = FALSE]
        /\ UNCHANGED PollRest

\* Time passes on a stalled write, or the write makes progress.
PollWriterClock ==
    \E b \in BOOLEAN :
        /\ poll.writer
        /\ b # poll.hasTimedOut
        /\ poll' = [poll EXCEPT !.hasTimedOut = b]
        /\ UNCHANGED PollRest

\* The poll callback runs.
PollOnWork ==
    /\ poll.polls < MaxPolls
    /\ LET raise == PollWork(poll)
       IN poll' = [poll EXCEPT !.polls = @ + 1,
                               !.timeouts = IF raise THEN @ + 1 ELSE @,
                               !.last = IF raise THEN "onWriteTimeout" ELSE "nothing"]
    /\ UNCHANGED PollRest

NextPoll ==
    \/ PollSetWriter
    \/ PollWriterClock
    \/ PollOnWork

SpecPoll == Init /\ [][NextPoll]_vars

(***************************************************************************)
(* Specification SpecEcho: the echo client's receive path.  The server      *)
(* sends back the quote (the byte at position i has value i) in segments;   *)
(* each callback of EchoReceivedHandler on core 0 peeks what is pending,    *)
(* cuts it at the marker, passes it to serial_printer.print() and consumes  *)
(* what it peeked.  loop1() on core 1 prints its statistics meanwhile, and  *)
(* core 1's run loop runs the print handlers.                               *)
(***************************************************************************)
MaxEchoStream == 16   \* length of the echoed text

\* The segment sizes the echoed text arrives in.
EchoSegSizes == {2, 6, 8, 16}

\* content->find(marker): the position of the first occurrence, 0 for npos.
Find(s, m) ==
    LET hits == {i \in 1..(Len(s) - Len(m) + 1) : SubSeq(s, i, i + Len(m) - 1) = m}
    IN IF hits = {} THEN 0 ELSE CHOOSE i \in hits : \A j \in hits : i <= j

\* The string EchoReceivedHandler::onWork prints: the peeked data, cut at the
\* marker when it holds one.
EchoContent(data) ==
    LET marker_pos == Find(data, END_OF_QUOTE_MARKER)
    IN IF marker_pos # 0 THEN SubSeq(data, 1, marker_pos - 1) ELSE data

EchoRest == <<bufVars, issued, hist, qotdVars, mainVars, ioVars, m_qotd_in_progress,
              drain, poll, loop_tasks, schedLog>>

\* A segment of the echoed text arrives; no callback is in progress.
EchoDelivers ==
    \E n \in EchoSegSizes :
        /\ echo.at = "idle"
        /\ echo.sent + n <= MaxEchoStream
        /\ echo' = [echo EXCEPT !.pending = @ \o Bytes(echo.sent + 1, echo.sent + n),
                                !.sent = @ + n]
        /\ UNCHANGED <<prVars, evVars>>
        /\ UNCHANGED EchoRest

\* onWork up to the call of print(): peekAvailable, peekBuffer, the cut at the
\* marker, and print()'s compare-and-swap.
EchoWorkBegin ==
    /\ echo.at = "idle"
    /\ echo.pending # <<>>
    /\ LET available == Len(echo.pending)
           data == SubSeq(echo.pending, 1, available)
       IN /\ PrintEnterAs("handler", EchoContent(data))
          /\ echo' = [echo EXCEPT !.at = "print", !.available = available]
    /\ UNCHANGED <<drain, poll, loop_tasks, schedLog>>

\* print() has returned: m_io.peekConsume(available).
EchoWorkConsume ==
    /\ echo.at = "print"
    /\ prAt["handler"].step = 0
    /\ echo' = [echo EXCEPT !.pending = PeekConsume(@, echo.available),
                            !.consumed = @ + echo.available,
                            !.at = "idle", !.available = 0, !.callbacks = @ + 1]
    /\ UNCHANGED <<prVars, evVars>>
    /\ UNCHANGED EchoRest

\* print_stack_stats() / print_heap_stats() in loop1().
Loop1Prints ==
    \E text \in PrintTexts :
        /\ PrintEnterAs("loop1", text)
        /\ UNCHANGED auxVars

NextEcho ==
    \/ EchoDelivers
    \/ EchoWorkBegin
    \/ EchoWorkConsume
    \/ Loop1Prints
    \/ PrintCreateStep
    \/ PrintRelease
    \/ RunLoopRunsPrint
    \/ RunLoopDestroys

SpecEcho == Init /\ [][NextEcho]_vars

(***************************************************************************)
(* Specification SpecSched: LoopScheduler.  Code calls setEntry(key,        *)
(* interval) and timeToRun(key) in any order, on keys of Keys and with      *)
(* intervals of Intervals.  loop_tasks is the map from the registered keys  *)
(* to their entries; schedLog records every call and what it returned.      *)
(***************************************************************************)
MaxSetEntries == 2   \* calls of setEntry in one run
MaxSchedRuns == 5    \* calls of timeToRun in one run

Keys == {1, 2}

Intervals == {0, 1, 2}

SchedRest == <<bufVars, issued, hist, qotdVars, evVars, mainVars, prVars, ioVars,
               m_qotd_in_progress, drain, poll, echo>>

\* struct Entry { uint32_t interval; uint32_t counter; }
Entry(interval, counter) == [interval |-> interval, counter |-> counter]

\* The calls of `op` recorded in `log`.
RECURSIVE Calls(_, _)
Calls(log, op) ==
    IF log = <<>> THEN 0
    ELSE Calls(Tail(log), op) + (IF Head(log).op = op THEN 1 ELSE 0)

\* LoopScheduler::setEntry: try_emplace(key, Entry{interval, 0}); an entry that
\* exists gets the new interval and counter 0.
SetEntry(tasks, key, interval) ==
    [k \in DOMAIN tasks \cup {key} |->
        IF k = key THEN Entry(interval, 0) ELSE tasks[k]]

\* timeToRun that compares with > instead of >=.
TimeToRunOffByOne(tasks, key) ==
    IF key \in DOMAIN tasks
    THEN IF tasks[key].counter > tasks[key].interval
         THEN [tasks |-> [tasks EXCEPT ![key].counter = 0], ret |-> TRUE]
         ELSE [tasks |-> [tasks EXCEPT ![key].counter = @ + 1], ret |-> FALSE]
    ELSE [tasks |-> tasks, ret |-> FALSE]

\* LoopScheduler::timeToRun: for a key that is found, counter >= interval
\* resets the counter and returns true, otherwise the counter is incremented;
\* in every other case the result is false.
TimeToRun(tasks, key) ==
    IF key \in DOMAIN tasks
    THEN IF tasks[key].counter >= tasks[key].interval
         THEN [tasks |-> [tasks EXCEPT ![key].counter = 0], ret |-> TRUE]
         ELSE [tasks |-> [tasks EXCEPT ![key].counter = @ + 1], ret |-> FALSE]
    ELSE [tasks |-> tasks, ret |-> FALSE]

SchedSetEntry ==
    \E key \in Keys, interval \in Intervals :
        /\ Calls(schedLog, "setEntry") < MaxSetEntries
        /\ loop_tasks' = SetEntry(loop_tasks, key, interval)
        /\ schedLog' = Append(schedLog, [op |-> "setEntry", key |-> key,
                                         interval |-> interval, ret |-> FALSE,
                                         existed |-> key \in DOMAIN loop_tasks])
        /\ UNCHANGED SchedRest

SchedTimeToRun ==
    \E key \in Keys :
        /\ Calls(schedLog, "timeToRun") < MaxSchedRuns
        /\ loop_tasks' = TimeToRun(loop_tasks, key).tasks
        /\ schedLog' = Append(schedLog, [op |-> "timeToRun", key |-> key,
                                         interval |-> 0,
                                         ret |-> TimeToRun(loop_tasks, key).ret,
                                         existed |-> key \in DOMAIN loop_tasks])
        /\ UNCHANGED SchedRest

NextSched ==
    \/ SchedSetEntry
    \/ SchedTimeToRun

SpecSched == Init /\ [][NextSched]_vars

(***************************************************************************)
(* Properties of the buffer, checked under SpecBuf.                        *)
(***************************************************************************)
\* The postconditions of the buffer's operations on a reference string.
RefApply(w, d, s) ==
    CASE w = "set"         -> d
      [] w = "append"      -> s \o d
      [] w = "clear"       -> <<>>
      [] w = "resetBuffer" -> <<>>
      [] OTHER             -> s

\* The reference string after the first n executed operations of history h.
RECURSIVE Replay(_, _)
Replay(h, n) == IF n = 0 THEN <<>> ELSE RefApply(h[n].w, h[n].data, Replay(h, n - 1))

\* C1: the executed operations take effect one at a time on the owning core.
\* The order in which onExecute ran them (hist) is a total order that keeps each
\* caller's submission order and runs no call twice; the buffer is the result of
\* applying the executed operations in that order, so it is never a part of a
\* written string; every executed get copied the whole content as of its own
\* place in that order; at most one payload is in flight.
C1_ExecutedOperationsAreAtomic ==
    /\ m_buffer = Replay(hist, Len(hist))
    /\ \A i, j \in 1..Len(hist) :
          i < j => /\ hist[i].ticket # hist[j].ticket
                   /\ (hist[i].caller = hist[j].caller => hist[i].ticket < hist[j].ticket)
    /\ \A i \in 1..Len(hist) : hist[i].w = "get" => hist[i].result = Replay(hist, i)
    /\ Len(queue) <= 1
    /\ (queue # <<>> => busy)

\* C1 witness: both cores have executed operations and a get has copied a
\* string of two or more characters.
C1_Witness ==
    /\ \E i, j \in 1..Len(hist) : hist[i].caller = OTHER_CORE /\ hist[j].caller = OWNER_CORE
    /\ \E i \in 1..Len(hist) : hist[i].w = "get" /\ Len(hist[i].result) >= 2

\* C11: when a call is issued while another call on the bridge is in progress,
\* the later call returns PICO_ERROR_RESOURCE_IN_USE and is never run or queued
\* (its caller is not blocked on it), and the buffer is the result of the calls
\* that ran, applied whole and in the order they ran: no data of a rejected call
\* is in it.
C11_OverlappingCallIsRejectedWhole ==
    /\ \A c \in Cores :
          ret[c].status = "PICO_ERROR_RESOURCE_IN_USE" =>
              /\ \A i \in 1..Len(hist) : hist[i].ticket # ret[c].ticket
              /\ \A c2 \in Cores : req[c2].ticket # ret[c].ticket
    /\ m_buffer = Replay(hist, Len(hist))
    /\ \A c \in Cores : pc[c] # "idle" => busy

\* C11 witness: core 0 issued a set; while it was in progress the same core
\* issued an append, which was rejected; the set ran and the buffer holds
\* exactly its data.
C11_Witness ==
    /\ ret[OTHER_CORE].status = "PICO_ERROR_RESOURCE_IN_USE"
    /\ ret[OTHER_CORE].w = "append"
    /\ pc[OTHER_CORE] = "served"
    /\ req[OTHER_CORE].w = "set"
    /\ req[OTHER_CORE].ticket < ret[OTHER_CORE].ticket
    /\ Len(hist) = 1
    /\ m_buffer = req[OTHER_CORE].data

ErrorStatuses == {"PICO_ERROR_RESOURCE_IN_USE", "PICO_ERROR_GENERIC"}

Mutators == {"set", "append", "clear", "setComplete", "resetBuffer"}

\* C12: a step in which execute hands an error status (resource in use, or a
\* failed submission) to a set, append, clear, setComplete or resetBuffer
\* wrapper leaves the content and the flag as they were, runs and queues
\* nothing, and the call is not run later either: its onExecute runs zero times.
C12_FailedMutationIsANoOp ==
    [][ \A c \in Cores :
          (ret'[c] # ret[c] /\ ret'[c].status \in ErrorStatuses /\ ret'[c].w \in Mutators)
          => /\ m_buffer' = m_buffer
             /\ m_quote_complete' = m_quote_complete
             /\ hist' = hist
             /\ queue' = queue
             /\ \A c2 \in Cores :
                   (ret[c2].status \in ErrorStatuses /\ ret[c2].w \in Mutators)
                   => \A i \in 1..Len(hist') : hist'[i].ticket # ret[c2].ticket ]_vars

\* C12 witness: a resetBuffer whose submission failed on a non-empty, completed
\* buffer, which is still non-empty and complete.
C12_Witness ==
    /\ ret[OTHER_CORE].status = "PICO_ERROR_GENERIC"
    /\ ret[OTHER_CORE].w = "resetBuffer"
    /\ m_buffer # <<>>
    /\ m_quote_complete

\* C13: whenever empty() returns, it returns true exactly when the content is
\* the empty string: the content as of the call's place among the executed
\* operations, or, for a call that was not executed, the content when it returns.
C13_EmptyIffBufferIsEmpty ==
    [][ \A c \in Cores :
          (ret'[c] # ret[c] /\ ret'[c].w = "empty")
          => (ret'[c].bool <=>
                (IF ret'[c].at > 0 THEN Replay(hist', ret'[c].at) ELSE m_buffer') = <<>>) ]_vars

\* C14: the owning core is never blocked in a call (its calls run inline or are
\* rejected), so the two cores are never both blocked; and a core that is
\* blocked in a call gets out of it, as long as the owning core's run loop runs.
C14_NoSynchronousCallDeadlocks ==
    /\ [](pc[OWNER_CORE] = "idle")
    /\ [](\E c \in Cores : pc[c] = "idle")
    /\ \A c \in Cores : (pc[c] = "waiting") ~> (pc[c] = "idle")

\* C14 witness: core 0 is blocked in a call; the owning core, which ran a call
\* inline before, has called again meanwhile and got its status at once.
C14_Witness ==
    /\ pc[OTHER_CORE] = "waiting"
    /\ ret[OWNER_CORE].status = "PICO_ERROR_RESOURCE_IN_USE"
    /\ \E i \in 1..Len(hist) : hist[i].caller = OWNER_CORE

\* C8: once a reset has been executed the buffer is empty and the completion
\* flag is false, whatever they were before; an isEmpty() served next returns
\* true and an isComplete() served next returns false.
C8_ResetYieldsEmptyAndIncomplete ==
    \A i \in 1..Len(hist) :
        hist[i].w = "resetBuffer" =>
            /\ (i = Len(hist) => m_buffer = <<>> /\ ~m_quote_complete)
            /\ \A c \in Cores :
                  (ret[c].at = i + 1 /\ ret[c].w = "empty") => ret[c].bool
            /\ \A c \in Cores :
                  (ret[c].at = i + 1 /\ ret[c].w = "isComplete") => ~ret[c].bool

\* C8 witness: a reset executed on a non-empty, completed buffer.
C8_Witness ==
    /\ Len(hist) = 3
    /\ hist[1].w = "set"
    /\ hist[2].w = "setComplete"
    /\ hist[3].w = "resetBuffer"

\* C9: after any sequence of executed set, append, clear and reset calls the
\* buffer equals the reference string, and a get that returned PICO_OK returned
\* the reference string as of its place in the sequence.
C9_BufferFollowsReferenceString ==
    /\ m_buffer = Replay(hist, Len(hist))
    /\ \A c \in Cores :
          (ret[c].w = "get" /\ ret[c].status = "PICO_OK")
              => ret[c].str = Replay(hist, ret[c].at)

\* C9 witness: a get returned a string that a set and an append built.
C9_Witness ==
    \E c \in Cores :
        /\ ret[c].w = "get" /\ ret[c].status = "PICO_OK" /\ ret[c].at = 3
        /\ hist[1].w = "set" /\ hist[2].w = "append"
        /\ Len(ret[c].str) >= 3

\* C10: every step changes only what the executed operation's postcondition
\* names.  A step in which no operation is executed changes neither the content
\* nor the flag; get, isEmpty and isComplete change neither; set, append and
\* clear leave the flag; setComplete sets the flag and leaves the content.
C10_FrameOfEachOperation ==
    [][ /\ (Len(hist') = Len(hist)
              => m_buffer' = m_buffer /\ m_quote_complete' = m_quote_complete)
        /\ (Len(hist') = Len(hist) + 1 =>
              LET e == hist'[Len(hist')]
              IN /\ (e.w \in {"get", "empty", "isComplete"}
                        => m_buffer' = m_buffer /\ m_quote_complete' = m_quote_complete)
                 /\ (e.w \in {"set", "append", "clear"}
                        => m_quote_complete' = m_quote_complete)
                 /\ (e.w = "setComplete"
                        => m_quote_complete' = TRUE /\ m_buffer' = m_buffer)) ]_vars

\* C10 witness: a set executed after a setComplete; the flag is still true.
C10_Witness ==
    /\ Len(hist) >= 2
    /\ hist[1].w = "setComplete"
    /\ hist[2].w = "set"
    /\ m_quote_complete
    /\ m_buffer # <<>>

Readers == {"get", "empty", "isComplete"}

\* C25: the content and the completion flag are read and written only by
\* onExecute running on the owning core.  Every run of onExecute is on the
\* owning core, whichever core called; a step that changes the content or the
\* flag is one run of onExecute on the owning core; and whatever get, empty or
\* isComplete return with PICO_OK to either core is what such a run copied out
\* for that very call.
C25_BufferTouchedOnlyOnOwningCore ==
    [][ /\ \A i \in 1..Len(hist') : hist'[i].core = OWNER_CORE
        /\ ((m_buffer' # m_buffer \/ m_quote_complete' # m_quote_complete)
              => /\ Len(hist') = Len(hist) + 1
                 /\ hist'[Len(hist')].core = OWNER_CORE)
        /\ \A c \in Cores :
              (ret'[c] # ret[c] /\ ret'[c].w \in Readers /\ ret'[c].status = "PICO_OK")
              => /\ ret'[c].at \in 1..Len(hist')
                 /\ LET e == hist'[ret'[c].at]
                    IN /\ e.core = OWNER_CORE
                       /\ e.caller = c
                       /\ e.ticket = ret'[c].ticket
                       /\ ret'[c] = [WrapperReturn(e.w, "PICO_OK", e.result)
                                       EXCEPT !.ticket = e.ticket, !.at = ret'[c].at] ]_vars

\* C25 witness: the other core wrote and then read a non-empty content; both
\* operations ran on the owning core, which has also run a call of its own.
C25_Witness ==
    /\ ret[OTHER_CORE].w = "get"
    /\ ret[OTHER_CORE].status = "PICO_OK"
    /\ ret[OTHER_CORE].str # <<>>
    /\ \E i, j \in 1..Len(hist) :
          /\ hist[i].caller = OTHER_CORE /\ hist[i].w = "set" /\ hist[i].core = OWNER_CORE
          /\ hist[j].caller = OWNER_CORE /\ hist[j].w = "setComplete"
    /\ m_quote_complete

C32_BytesAreConserved ==
    m_buffer \o rxPending = Bytes(1, sent)

(***************************************************************************)
(* Properties of the event bridges, checked under SpecEv and SpecEvLive.   *)
(***************************************************************************)
InProgress(h) == \E i \in 1..Len(frames) : frames[i].h = h

Pending(h) == \E i \in 1..Len(runq0) : runq0[i] = h

RECURSIVE SumSeq(_)
SumSeq(q) == IF q = <<>> THEN 0 ELSE Head(q) + SumSeq(Tail(q))

\* C15: while a callback of a handler is in progress, core 0 is never blocked
\* waiting for core 1.
C15_NoCallbackBlocks ==
    frames # <<>> => pc[OTHER_CORE] # "waiting"

\* C16: no handler has two callbacks in progress at the same time.
C16_NoOverlappingCallbacks ==
    \A i, j \in 1..Len(frames) : i # j => frames[i].h # frames[j].h

\* C16 witness: a handler fired again while its callback was in progress and
\* waiting in a buffer call; the new invocation is pending, not running.
C16_Witness ==
    /\ Len(frames) = 1
    /\ pc[OTHER_CORE] = "waiting"
    /\ Pending(frames[1].h)

\* C17: once no ACK invocation is pending or in progress, the lengths handed to
\* onAckReceived add up to the lengths the firings carried.
C17_EveryAckLengthIsDelivered ==
    (~Pending("ack") /\ ~InProgress("ack"))
    => SumSeq(ackDelivered) = SumSeq(ackFired)

\* C18: every workload object handed to TcpAckHandler::workload has been
\* deleted exactly once, in every state after the firing and so before the
\* callback of that firing returns, and was not read after it was deleted.
C18_AckWorkloadReleasedOnce ==
    \A i \in 1..Len(heap) : heap[i].frees = 1 /\ ~heap[i].readFreed

\* C18 witness: two firings with a workload before the callback ran, and the
\* callback has handed a length on.
C18_Witness ==
    /\ Len(heap) >= 2
    /\ ackDelivered # <<>>
    /\ Len(ackDelivered) < Len(ackFired)

\* C19: a QOTD handler that has no callback in progress and none pending holds
\* no receive-buffer pointer.
C19_NoWorkloadKeptAfterCallback ==
    \A h \in RxHandlers :
        (~InProgress(h) /\ ~Pending(h)) => m_rx_buffer[h] = 0

\* C20: every print handler created is either alive and scheduled once or has
\* completed its callback; and when the run loop of core 1 has run, as many
\* callbacks have completed as handlers were created and none is alive.
C20_EveryCreatedPrintHandlerRunsOnce ==
    /\ [](created = completed + Cardinality(live))
    /\ [](live = {printers[i] : i \in 1..Len(printers)})
    /\ [](Cardinality(live) = Len(printers))
    /\ <>[](live = {} /\ completed = created)

\* C20 witness: two handlers were created, both callbacks have completed and
\* no handler is alive.
C20_Witness ==
    /\ created = 2
    /\ completed = 2
    /\ live = {}
(***************************************************************************)
(* Properties of the print path, checked under SpecPrint and SpecPrintLive. *)
(***************************************************************************)
\* The factory is still executing on handler id at step s.
FactoryAt(id, s) == \E k \in PrintCallers : prAt[k].id = id /\ prAt[k].step = s

FactoryIn(id) == \E k \in PrintCallers : prAt[k].id = id /\ prAt[k].step > 0

\* C21: a one-shot handler is destroyed exactly once, only after its single
\* callback has returned and on the core that ran it; it is never destroyed
\* before or during the callback, the callback never runs twice, and the
\* factory never touches a destroyed handler, also when the callback runs on
\* core 1 while the factory is still executing on core 0.
C21_HandlerDestroyedOnceAfterCallback ==
    \A id \in 1..Len(hnd) :
        LET h == hnd[id]
        IN /\ h.destroys <= 1
           /\ h.runs <= 1
           /\ ~h.touchedDead
           /\ h.destroys = 1 =>
                 /\ h.runs = 1
                 /\ running # id
                 /\ h.destroyedOn = h.ranOn
                 /\ id \notin live
                 /\ FactoryIn(id) => FactoryAt(id, Len(Factory) + 1)
           /\ (h.runs = 1 /\ running # id) => h.destroys = 1
           /\ running = id => (h.runs = 1 /\ h.destroys = 0 /\ id \in live)

\* A handler whose callback ran on core 1 and which is destroyed while the
\* factory that created it on core 0 has not returned yet.
C21_Witness ==
    \E id \in 1..Len(hnd) :
        /\ hnd[id].destroys = 1
        /\ \E k \in PrintCallers : CoreOf(k) = OTHER_CORE /\ prAt[k].id = id

Scheduled(t) == {id \in 1..Len(hnd) : hnd[id].ticket = t /\ hnd[id].scheduled > 0}

RECURSIVE SumScheduled(_, _)
SumScheduled(t, n) ==
    IF n = 0 THEN 0
    ELSE (IF hnd[n].ticket = t THEN hnd[n].scheduled ELSE 0) + SumScheduled(t, n - 1)

\* C22: a print() call that finds the guard held returns
\* PICO_ERROR_RESOURCE_IN_USE at once and schedules no handler; a call that
\* acquires the guard schedules exactly one handler and returns PICO_OK.
C22_ContendedPrintIsRejected ==
    /\ \A t \in 1..Len(printLog) :
          LET e == printLog[t]
          IN /\ e.held =>
                   /\ e.status = "PICO_ERROR_RESOURCE_IN_USE"
                   /\ \A id \in 1..Len(hnd) : hnd[id].ticket # t
                   /\ \A k \in PrintCallers : prAt[k].ticket # t
             /\ ~e.held =>
                   /\ e.status \in {"pending", "PICO_OK"}
                   /\ SumScheduled(t, Len(hnd)) <= 1
                   /\ e.status = "PICO_OK" => SumScheduled(t, Len(hnd)) = 1
                   /\ e.status = "pending" => \E k \in PrintCallers : prAt[k].ticket = t
    /\ \A k \in PrintCallers : prAt[k].step > 0 => print_lock

\* One call was rejected while another held the guard, and that other call
\* has returned PICO_OK with its handler scheduled.
C22_Witness ==
    \E t, u \in 1..Len(printLog) :
        /\ printLog[t].status = "PICO_ERROR_RESOURCE_IN_USE"
        /\ printLog[u].status = "PICO_OK"
        /\ u < t
        /\ Scheduled(u) # {}

\* The callers between acquiring and releasing print_lock.
Holders == {k \in PrintCallers : prAt[k].step > 0}

\* C35: at most one caller, on either core, is between acquiring and releasing
\* print_lock, and the guard is held exactly while there is one; a call that
\* acquired the guard has released it when it returns; and a guard that is
\* held is released, so that print() is not rejected for ever.
C35_PrintGuardIsReleased ==
    /\ [](Cardinality(Holders) <= 1)
    /\ [](print_lock <=> Holders # {})
    /\ [][ \A k \in PrintCallers :
             (prAt[k].step > 0 /\ prAt'[k].step = 0)
             => /\ ~print_lock'
                /\ printLog'[prAt[k].ticket].status = "PICO_OK" ]_vars
    /\ print_lock ~> ~print_lock

\* C35 witness: loop1() on core 1 held the guard and released it, a call from
\* core 0 made meanwhile was rejected, and a later call from core 0 holds the
\* guard now.
C35_Witness ==
    /\ Holders = {"loop"}
    /\ \E t, u \in 1..Len(printLog) :
          /\ t < u
          /\ printLog[t].caller = "loop1" /\ printLog[t].status = "PICO_OK"
          /\ printLog[u].caller = "handler"
          /\ printLog[u].status = "PICO_ERROR_RESOURCE_IN_USE"

\* The calls that acquired the guard with a message that is not empty, in the
\* order in which they acquired it.
RECURSIVE AcceptedLines(_)
AcceptedLines(n) ==
    IF n = 0 THEN <<>>
    ELSE IF printLog[n].status # "PICO_ERROR_RESOURCE_IN_USE" /\ printLog[n].text # <<>>
         THEN Append(AcceptedLines(n - 1), [ticket |-> n, text |-> printLog[n].text])
         ELSE AcceptedLines(n - 1)

IsPrefix(s, q) == Len(s) <= Len(q) /\ SubSeq(q, 1, Len(s)) = s

\* C23: the accepted messages are written to the serial device in the order
\* in which they were accepted, each non-empty one exactly once; none is
\* cancelled or reordered, and a rejected message is never written.
C23_AcceptedMessagesPrintedInOrder ==
    /\ [](IsPrefix(serial, AcceptedLines(Len(printLog))))
    /\ [](\A i \in 1..Len(serial) :
             printLog[serial[i].ticket].status # "PICO_ERROR_RESOURCE_IN_USE")
    /\ <>[](/\ serial = AcceptedLines(Len(printLog))
            /\ \A t \in 1..Len(printLog) :
                  printLog[t].status \in {"PICO_OK", "PICO_ERROR_RESOURCE_IN_USE"})

\* Two lines accepted from different callers are on the serial device, after a
\* third message was rejected.
C23_Witness ==
    /\ Len(serial) = 2
    /\ printLog[serial[1].ticket].caller # printLog[serial[2].ticket].caller
    /\ \E t \in 1..Len(printLog) : printLog[t].status = "PICO_ERROR_RESOURCE_IN_USE"

\* C39: once the completion flag is true the quote is stable: while the flag
\* stays true no step changes the buffer content, so a data callback that is
\* processed after the FIN callback neither appends to the completed quote
\* nor replaces it.
C39_CompleteQuoteIsStable ==
    [][(m_quote_complete /\ m_quote_complete') => m_buffer' = m_buffer]_vars

(***************************************************************************)
(* Properties of start-up and of loop(), checked under SpecMain.            *)
(***************************************************************************)
Panicked == \E c \in Cores : cpc[c] = "panic"

\* Nothing has been asked of the clients, the buffer or the printer.
NothingIssued ==
    /\ conn = "idle"
    /\ echoConn = "idle"
    /\ printQ = 0
    /\ ~busy /\ queue = <<>> /\ \A c \in Cores : pc[c] = "idle" /\ ret[c] = NoReturn
    /\ m_buffer = <<>> /\ ~m_quote_complete
    /\ loopFn = "none"
    /\ lastEcho = NoEcho

\* C24: if the initialisation of the execution context of either core fails,
\* that core panics, it never sets operational / ctx1_ready, and no
\* connection attempt, buffer operation or print is ever issued afterwards.
C24_FailedContextInitHaltsStartup ==
    /\ [](cpc[OTHER_CORE] = "panic" => (~operational /\ ~ctx1_ready /\ cpc[OWNER_CORE] = "setup"))
    /\ [](cpc[OWNER_CORE] = "panic" => ~ctx1_ready)
    /\ [](Panicked => NothingIssued)
    /\ [][Panicked => (Panicked' /\ UNCHANGED <<bufVars, qotdVars, echoConn, lastEcho, loopFn>>)]_vars

\* Core 1 has panicked in setup1() after core 0 finished setup().
C24_Witness ==
    /\ cpc[OWNER_CORE] = "panic"
    /\ cpc[OTHER_CORE] = "loop"
    /\ operational

\* A call on the bridge of the quote buffer, which is bound to ctx1, is in
\* progress or has returned.
BridgeUsed ==
    \/ busy
    \/ queue # <<>>
    \/ \E c \in Cores : pc[c] # "idle" \/ ret[c] # NoReturn

\* C36: core 1 leaves the wait of setup1() and initialises ctx1 only when
\* operational is set, which core 0 sets when ctx0 is initialised and the
\* handlers are registered; while ctx1_ready is false loop() has issued no
\* buffer operation, no connection attempt and no print; ctx1_ready is set
\* only with ctx1 initialised, so no bridge bound to ctx1 is used before that.
C36_StartupOrdering ==
    /\ [][cpc[OWNER_CORE] # cpc'[OWNER_CORE] => (operational /\ cpc[OTHER_CORE] = "loop")]_vars
    /\ [](operational => cpc[OTHER_CORE] = "loop")
    /\ [](ctx1_ready => (operational /\ cpc[OWNER_CORE] = "loop"))
    /\ [](~ctx1_ready => NothingIssued)
    /\ [](BridgeUsed => cpc[OWNER_CORE] = "loop")
    /\ [][(ctx1_ready => ctx1_ready') /\ (operational => operational')]_vars

\* C36 witness: both cores have started, and loop() has since connected both
\* clients, read the buffer through the bridge and printed.
C36_Witness ==
    /\ operational /\ ctx1_ready
    /\ conn = "open"
    /\ echoConn = "open"
    /\ printQ > 0
    /\ ret[OTHER_CORE] # NoReturn
    /\ m_buffer # <<>>

\* A quote has been received completely: the server closed the connection
\* and the FIN callback marked the buffered quote complete.
QuoteReceived == m_quote_complete /\ m_buffer # <<>>

\* Once the buffer holds text, no step of the program empties it.
BufferStaysFilled == [][m_buffer # <<>> => m_buffer' # <<>>]_vars

\* C37: the fetch/echo cycle makes progress for ever.  Once a quote has been
\* received completely, get_echo eventually writes it to the echo server, the
\* buffer eventually becomes empty again, and a later get_quote_of_the_day
\* eventually starts a new connection to the quote server.
C37_CycleMakesProgress ==
    /\ QuoteReceived ~> (lastEcho.did = "write")
    /\ QuoteReceived ~> (m_buffer = <<>>)
    /\ QuoteReceived ~> (conn = "connecting")

\* The step of get_quote_of_the_day() in which qotd_client.connect() is called:
\* get() has returned the empty string and connected() is false.
ConnectCalled ==
    /\ loopFn = "qotd" /\ loopFn' = "none"
    /\ ret'[OTHER_CORE].str = <<>>
    /\ ~Connected

\* C38: at most one connection to the quote server is open or being set up:
\* get_quote_of_the_day never calls connect() while an earlier connect() is
\* still in progress or the connection is still open.
C38_OneQotdConnectionAtATime ==
    [][ConnectCalled => conn \notin {"connecting", "open", "fin"}]_vars

C27_EchoSendsOnlyMarkedQuotes ==
    /\ [](lastEcho.did = "write" =>
            /\ echoConn = "open"
            /\ m_buffer # <<>>
            /\ Contains(m_buffer, END_OF_QUOTE_MARKER))
    /\ [][(loopFn = "echo" /\ loopFn' = "none") =>
            /\ EchoConnected
            /\ lastEcho'.did = "write" <=>
                  /\ ret'[OTHER_CORE].str # <<>>
                  /\ Contains(ret'[OTHER_CORE].str, END_OF_QUOTE_MARKER)
            /\ lastEcho'.did = "write" =>
                  (m_buffer # <<>> /\ Contains(m_buffer, END_OF_QUOTE_MARKER))]_vars
    /\ [][(loopFn = "none" /\ ~EchoConnected) =>
            /\ loopFn' # "echo"
            /\ lastEcho' = lastEcho
            /\ (echoConn = "idle" /\ echoConn' # "idle") =>
                  (echoConn' = "connecting" /\ UNCHANGED bufVars)]_vars

\* get_echo() has sent a quote the server has finished: the echo client is
\* connected and the buffer holds the marker.
C27_Witness ==
    /\ lastEcho.did = "write"
    /\ m_quote_complete
    /\ conn = "idle"


\* C29: when a callback of the QOTD closed handler returns, the buffer
\* contains the end-of-quote marker.
C29_ClosedLeavesTheMarker ==
    [][ (frames # <<>> /\ Top.h = "qotd_closed" /\ Len(frames') < Len(frames))
          => Contains(m_buffer', END_OF_QUOTE_MARKER) ]_vars

\* The states of the receive state machine, as the flag and the connection
\* show them; DRAINING is passed through inside the FIN callback.
Phase(cn, cpl) ==
    IF cpl THEN "COMPLETE"
    ELSE IF cn \in {"open", "fin"} THEN "RECEIVING" ELSE "IDLE"

PhaseMoves == {<<"IDLE", "RECEIVING">>, <<"RECEIVING", "COMPLETE">>, <<"COMPLETE", "IDLE">>}

\* A callback of core 0's run loop is processed in this step.
Processing(n) == evq # <<>> /\ Head(evq) = n /\ evq' = Tail(evq)

C28_WriteReturnsBytesReported ==
    \A i \in 1..Len(ioLog) :
        LET p == ioHeap[ioLog[i].pid]
        IN p.executed => /\ p.result = p.reported
                         /\ ioLog[i].returned = Value(p.reported)

(***************************************************************************)
(* Properties of the drain loop, checked under SpecDrainLive.              *)
(***************************************************************************)
\* ceil(n / T)
CeilDiv(n, T) == (n + T - 1) \div T

\* C31: for every number n > 0 of pending bytes and every threshold T >= 1 the
\* drain loop terminates.  Each iteration consumes exactly min(remaining, T)
\* bytes from the transport, the remaining count strictly decreases and is the
\* number of bytes the transport still holds, and the loop is left after
\* ceil(n / T) iterations with nothing remaining.
C31_DrainLoopTerminates ==
    /\ [](\A i \in 1..Len(drain.steps) :
             LET st == drain.steps[i]
             IN /\ st.consumed = Min(st.before, drain.T)
                /\ st.after = st.before - st.consumed
                /\ st.after < st.before
                /\ st.before = (IF i = 1 THEN drain.n ELSE drain.steps[i - 1].after))
    /\ [](drain.at = "loop" => drain.available = Len(rxPending))
    /\ [](drain.at = "done" => /\ Len(drain.steps) = CeilDiv(drain.n, drain.T)
                               /\ drain.available = 0
                               /\ rxPending = <<>>)
    /\ (drain.at = "loop") ~> (drain.at = "done")

\* C31 witness: a drain of more bytes than two thresholds, not a multiple of
\* the threshold, has ended after three iterations or more.
C31_Witness ==
    /\ drain.at = "done"
    /\ drain.T = QOTD_PARTIAL_CONSUMPTION_THRESHOLD
    /\ drain.n > 2 * drain.T
    /\ drain.n % drain.T # 0
    /\ Len(drain.steps) >= 3
    /\ drain.steps[Len(drain.steps)].consumed < drain.T

(***************************************************************************)
(* Properties of the poll handler, checked under SpecPoll.                 *)
(***************************************************************************)
\* C33: a poll callback calls the writer's onWriteTimeout exactly when the
\* client has a writer and that writer reports hasTimedOut as the callback
\* runs, and then once; a poll without a writer, or with a writer that has not
\* timed out, changes nothing; nothing but a poll callback raises the event.
C33_PollRaisesTimeoutIffTimedOut ==
    [][ /\ (poll'.polls = poll.polls + 1
              => /\ (poll'.timeouts = poll.timeouts + 1 <=> (poll.writer /\ poll.hasTimedOut))
                 /\ (poll'.timeouts # poll.timeouts + 1 => poll'.timeouts = poll.timeouts)
                 /\ (poll'.last = "onWriteTimeout" <=> (poll.writer /\ poll.hasTimedOut))
                 /\ (~(poll.writer /\ poll.hasTimedOut)
                       => poll' = [poll EXCEPT !.polls = @ + 1, !.last = "nothing"]))
        /\ (poll'.polls = poll.polls => poll'.timeouts = poll.timeouts) ]_vars

\* C33 witness: polls without a writer and with a writer that had not timed
\* out raised nothing; a poll of a timed-out writer raised the event.
C33_Witness ==
    /\ poll.polls >= 3
    /\ poll.timeouts = 1
    /\ poll.last = "onWriteTimeout"
    /\ poll.writer

(***************************************************************************)
(* Properties of the echo receive path, checked under SpecEcho.            *)
(***************************************************************************)
\* The bytes of s that are ahead of the marker in the echoed text.
Ahead(s) == SelectSeq(s, LAMBDA b : b < END_OF_QUOTE_MARKER[1])

\* The strings print() accepted from the echo handler, in order, as one string.
RECURSIVE EchoAccepted(_)
EchoAccepted(n) ==
    IF n = 0 THEN <<>>
    ELSE EchoAccepted(n - 1) \o
         (IF printLog[n].caller = "handler" /\ printLog[n].status # "PICO_ERROR_RESOURCE_IN_USE"
          THEN printLog[n].text ELSE <<>>)

\* C34: between callbacks, the bytes ahead of the marker that have been
\* consumed from the transport are the bytes the printer has accepted from the
\* handler, each once and in order; and what was consumed and what is pending
\* make up what was delivered.
C34_EchoBytesPrintedOnce ==
    /\ Bytes(1, echo.consumed) \o echo.pending = Bytes(1, echo.sent) \/ echo.at # "idle"
    /\ echo.at = "idle" => Ahead(Bytes(1, echo.consumed)) = Ahead(EchoAccepted(Len(printLog)))

(***************************************************************************)
(* Properties of LoopScheduler, checked under SpecSched.                   *)
(***************************************************************************)
\* The index of the last setEntry(k, ...) in `log`, 0 if there is none.
LastSet(log, k) ==
    LET S == {i \in 1..Len(log) : log[i].op = "setEntry" /\ log[i].key = k}
    IN IF S = {} THEN 0 ELSE CHOOSE i \in S : \A j \in S : j <= i

\* The calls of timeToRun(k) that returned false since the last call on k that
\* was a setEntry or returned true.
RECURSIVE Falses(_, _)
Falses(log, k) ==
    IF log = <<>> THEN 0
    ELSE LET e == log[Len(log)]
             front == SubSeq(log, 1, Len(log) - 1)
         IN IF e.key # k THEN Falses(front, k)
            ELSE IF e.op = "timeToRun" /\ ~e.ret THEN 1 + Falses(front, k)
            ELSE 0

\* C40: for a key registered with interval N, timeToRun returns false on N
\* consecutive calls and true on the next one, and so on; the counter of an
\* entry is between 0 and its interval; setEntry on a key that exists replaces
\* the interval and sets the counter to 0; timeToRun on a key that is not
\* registered returns false and creates no entry.
C40_SchedulerCountsIntervals ==
    /\ \A i \in 1..Len(schedLog) :
          LET e == schedLog[i]
              front == SubSeq(schedLog, 1, i - 1)
              s == LastSet(front, e.key)
          IN e.op = "timeToRun" =>
                IF s = 0
                THEN ~e.ret /\ ~e.existed
                ELSE /\ Falses(front, e.key) <= front[s].interval
                     /\ e.ret <=> (Falses(front, e.key) = front[s].interval)
    /\ DOMAIN loop_tasks = {k \in Keys : LastSet(schedLog, k) > 0}
    /\ \A k \in DOMAIN loop_tasks :
          /\ 0 <= loop_tasks[k].counter
          /\ loop_tasks[k].counter <= loop_tasks[k].interval
          /\ loop_tasks[k].interval = schedLog[LastSet(schedLog, k)].interval
          /\ loop_tasks[k].counter = Falses(schedLog, k)
    /\ (schedLog # <<>> /\ schedLog[Len(schedLog)].op = "setEntry")
          => loop_tasks[schedLog[Len(schedLog)].key].counter = 0

\* C40 witness: a key was registered a second time, a key that is not
\* registered was asked for, and four consecutive calls on a key of interval 1
\* returned false, true, false, true.
C40_Witness ==
    /\ \E i \in 1..Len(schedLog) : schedLog[i].op = "setEntry" /\ schedLog[i].existed
    /\ \E i \in 1..Len(schedLog) : schedLog[i].op = "timeToRun" /\ ~schedLog[i].existed
    /\ \E i \in 1..(Len(schedLog) - 3) :
          /\ \A j \in i..(i + 3) :
                /\ schedLog[j].op = "timeToRun"
                /\ schedLog[j].key = schedLog[i].key
          /\ schedLog[i].key \in DOMAIN loop_tasks
          /\ loop_tasks[schedLog[i].key].interval = 1
          /\ <<schedLog[i].ret, schedLog[i + 1].ret, schedLog[i + 2].ret, schedLog[i + 3].ret>>
                = <<FALSE, TRUE, FALSE, TRUE>>

====
